---- MODULE Spec2Model ----
(***************************************************************************)
(* A model of python-comtrade (src/comtrade.py): the CFG parser            *)
(* (Cfg._read_io), the DAT decoders (AsciiDatReader, BinaryDatReader and   *)
(* its BINARY32 / FLOAT32 variants) and Comtrade.read, which runs one      *)
(* after the other.                                                        *)
(*                                                                         *)
(* Text is modelled at character level: a cell is a sequence of one        *)
(* character strings, a line is the sequence of its cells (the cells that  *)
(* line.split(",") yields, so a line always has at least one cell).        *)
(* Numbers: TLC integers are 32 bit signed, so an unsigned 32 bit field    *)
(* (the DAT time stamp) is held as the pair <<high 16 bits, low 16 bits>>. *)
(* Physical values and times are exact rationals <<num, den>> in lowest    *)
(* terms: the rounding of the float arrays is not modelled.                *)
(***************************************************************************)
EXTENDS Integers, Sequences, FiniteSets, TLC

VARIABLES
    entry,      \* the API call in progress: "Cfg.read", "Comtrade.read"
                \* or "Comtrade.load"
    pc,         \* position of the call in the code
    err,        \* the exception that ended the call ("" when none)
    cfg,        \* the Cfg object (Comtrade._cfg)
    cfgIn,      \* the lines of the configuration stream read so far
    ct,         \* the Comtrade object's own fields
    dat,        \* the DatReader object built by _get_dat_reader
    datIn,      \* the rows of the data stream consumed so far
    datTail,    \* bytes of the data stream after its last complete record
    warns,      \* the warnings emitted by the call
    nvar,       \* number of lines read that differ from the reference stream
    cff,        \* Comtrade._load_cff: the combined file and its sections
    pair,       \* the object loaded from the CFG/DAT pair before it
    earlier     \* Cfg.read called again: the reads made before this one

vars == <<entry, pc, err, cfg, cfgIn, ct, dat, datIn, datTail, warns, nvar,
          cff, pair, earlier>>

(***************************************************************************)
(* Program constants                                                       *)
(***************************************************************************)
REV_1991 == <<"1", "9", "9", "1">>
REV_1999 == <<"1", "9", "9", "9">>
REV_2013 == <<"2", "0", "1", "3">>

TYPE_ASCII    == <<"A", "S", "C", "I", "I">>
TYPE_BINARY   == <<"B", "I", "N", "A", "R", "Y">>
TYPE_BINARY32 == <<"B", "I", "N", "A", "R", "Y", "3", "2">>
TYPE_FLOAT32  == <<"F", "L", "O", "A", "T", "3", "2">>

\* 0xFFFFFFFF as <<high half, low half>>
TIMESTAMP_MISSING == <<65535, 65535>>

\* Cfg.TIME_BASE_NANOSEC = 1E-9 and Cfg.TIME_BASE_MICROSEC = 1E-6, held as
\* the number of base units in one second
TIME_BASE_NANOSEC == 1000000000
TIME_BASE_MICROSEC == 1000000

\* the int that Cfg.__init__ stores in _rev_year: equal to no text
INIT_REV_YEAR == <<"int 2013">>
\* the int 0 that Cfg.__init__ stores in the four 2013 codes
INIT_CODE == <<"int 0">>

(***************************************************************************)
(* Text and numbers                                                        *)
(***************************************************************************)
DigitChars == <<"0", "1", "2", "3", "4", "5", "6", "7", "8", "9">>
IsDigit(c) == \E d \in 1..10 : DigitChars[d] = c
DigitVal(c) == (CHOOSE d \in 1..10 : DigitChars[d] = c) - 1
AllDigits(s) == \A i \in 1..Len(s) : IsDigit(s[i])

RECURSIVE DigitsVal(_)
DigitsVal(s) ==
    IF s = <<>> THEN 0
    ELSE 10 * DigitsVal(SubSeq(s, 1, Len(s) - 1)) + DigitVal(s[Len(s)])

\* the decimal text of a natural number (used to write input streams)
RECURSIVE Dec(_)
Dec(n) == IF n < 10 THEN <<DigitChars[n + 1]>>
          ELSE Dec(n \div 10) \o <<DigitChars[(n % 10) + 1]>>

\* str.strip(): leading and trailing blanks removed
RECURSIVE LStrip(_)
LStrip(s) == IF s # <<>> /\ s[1] = " " THEN LStrip(Tail(s)) ELSE s
RECURSIVE RStrip(_)
RStrip(s) == IF s # <<>> /\ s[Len(s)] = " "
             THEN RStrip(SubSeq(s, 1, Len(s) - 1)) ELSE s
Strip(s) == RStrip(LStrip(s))

\* str.upper() on the letters the inputs use
LowerChars == <<"a", "b", "c", "d", "e", "f", "g", "h", "i", "l", "n", "o", "p",
                "r", "s", "t", "y">>
UpperChars == <<"A", "B", "C", "D", "E", "F", "G", "H", "I", "L", "N", "O", "P",
                "R", "S", "T", "Y">>
UpperChar(c) == IF \E k \in 1..Len(LowerChars) : LowerChars[k] = c
                THEN UpperChars[CHOOSE k \in 1..Len(LowerChars) : LowerChars[k] = c]
                ELSE c
Upper(s) == [i \in 1..Len(s) |-> UpperChar(s[i])]

\* int(text): blanks stripped, an optional sign, then digits; anything else
\* raises ValueError
IntBody(s) == IF s # <<>> /\ s[1] \in {"-", "+"} THEN Tail(s) ELSE s
IsIntText(s0) == LET s == Strip(s0) IN IntBody(s) # <<>> /\ AllDigits(IntBody(s))
IntOf(s0) == LET s == Strip(s0) IN
             IF s[1] = "-" THEN 0 - DigitsVal(IntBody(s)) ELSE DigitsVal(IntBody(s))

\* float(text) on the decimal integers the inputs hold (no fraction part,
\* no exponent): the value is the integer
IsFloatText(s) == IsIntText(s)
FloatOf(s) == IntOf(s)

\* the unsigned 32 bit value of a decimal text, as <<high, low>> halves
RECURSIVE U32Of(_)
U32Of(s) ==
    IF s = <<>> THEN <<0, 0>>
    ELSE LET p == U32Of(SubSeq(s, 1, Len(s) - 1))
             lo == p[2] * 10 + DigitVal(s[Len(s)])
         IN  <<p[1] * 10 + (lo \div 65536), lo % 65536>>
U32Nat(w) == w[1] * 65536 + w[2]
U32(n) == <<n \div 65536, n % 65536>>

\* rationals in lowest terms
RECURSIVE Gcd(_, _)
Gcd(a, b) == IF b = 0 THEN a ELSE Gcd(b, a % b)
Abs(x) == IF x < 0 THEN 0 - x ELSE x
Rat(num, den) == LET g == Gcd(Abs(num), den) IN <<num \div g, den \div g>>

(***************************************************************************)
(* Module level helpers of comtrade.py                                     *)
(***************************************************************************)
\* a line of the stream: the sequence of its cells; EOF, the '' that
\* readline() returns at the end of the stream, has the single empty cell
\* of ''.split(",") but is told apart from a blank line by "if line:"
EOF == <<>>
Cells(line) == IF line = EOF THEN << <<>> >> ELSE line

\* the text of a line: its cells joined by SEPARATOR
RECURSIVE LineText(_)
LineText(cells) ==
    IF Len(cells) = 1 THEN cells[1]
    ELSE cells[1] \o <<",">> \o LineText(Tail(cells))

\* a variant of _read_sep_values that pads with the empty text whatever
\* default it is given
PadWithEmptyText(line, expected, default) ==
    LET values == [i \in 1..Len(line) |-> Strip(line[i])]
    IN  IF expected = -1 \/ Len(values) = expected THEN values
        ELSE [i \in 1..expected |-> IF i <= Len(values) THEN values[i] ELSE <<>>]
_read_sep_values(line, expected, default) ==
    LET values == [i \in 1..Len(line) |-> Strip(line[i])]
    IN  IF expected = -1 \/ Len(values) = expected THEN values
        ELSE [i \in 1..expected |-> IF i <= Len(values) THEN values[i] ELSE default]

\* a variant of _prevent_null that converts a blank text like any other
PreventNullConverts(str_value, default_value) ==
    IF IsIntText(str_value) THEN [ok |-> TRUE, v |-> IntOf(str_value)]
    ELSE [ok |-> FALSE, v |-> default_value]

\* _prevent_null with value_type int or float: [ok |-> FALSE] when the
\* conversion raises
_prevent_null(str_value, default_value) ==
    IF Len(Strip(str_value)) = 0 THEN [ok |-> TRUE, v |-> default_value]
    ELSE IF IsIntText(str_value) THEN [ok |-> TRUE, v |-> IntOf(str_value)]
    ELSE [ok |-> FALSE, v |-> default_value]

\* the regular expressions re_date and re_time, matched from the start of
\* the text: At is the character at a position ("" past the end), DigitRun
\* the length of the greedy run [0-9]{0,max} starting there
At(s, i) == IF i >= 1 /\ i <= Len(s) THEN s[i] ELSE ""
RECURSIVE DigitRun(_, _, _)
DigitRun(s, i, max) ==
    IF max = 0 \/ ~IsDigit(At(s, i)) THEN 0 ELSE 1 + DigitRun(s, i + 1, max - 1)

_get_date(date_str) ==
    LET k1 == DigitRun(date_str, 1, 2)
        k2 == DigitRun(date_str, k1 + 2, 2)
        k3 == DigitRun(date_str, k1 + k2 + 3, 4)
    IN  IF /\ k1 >= 1 /\ At(date_str, k1 + 1) = "/"
           /\ k2 >= 1 /\ At(date_str, k1 + k2 + 2) = "/"
           /\ k3 >= 2
        THEN <<DigitsVal(SubSeq(date_str, 1, k1)),
               DigitsVal(SubSeq(date_str, k1 + 2, k1 + k2 + 1)),
               DigitsVal(SubSeq(date_str, k1 + k2 + 3, k1 + k2 + k3 + 2))>>
        ELSE <<0, 0, 0>>

fill_with_zeros_to_the_right(number_str, width) ==
    IF Len(number_str) < width
    THEN number_str \o [i \in 1..(width - Len(number_str)) |-> "0"]
    ELSE number_str

\* a variant of _get_time that reports nanoseconds only when it warns
GetTimeNanoWhenWarned(time_str, ignore_warnings) ==
    LET k1 == DigitRun(time_str, 1, 2)
        matched == /\ k1 >= 1 /\ At(time_str, k1 + 1) = ":"
                   /\ DigitRun(time_str, k1 + 2, 2) = 2
                   /\ At(time_str, k1 + 4) = ":"
                   /\ DigitRun(time_str, k1 + 5, 2) = 2
        kf == IF At(time_str, k1 + 7) = "." THEN DigitRun(time_str, k1 + 8, 12) ELSE 0
        group5 == SubSeq(time_str, k1 + 8, k1 + 7 + kf)
        fracsec_str == IF Len(group5) <= 6
                       THEN fill_with_zeros_to_the_right(group5, 6)
                       ELSE fill_with_zeros_to_the_right(group5, 9)
        in_nanoseconds == Len(fracsec_str) > 6
        none == [kind |-> "None", hour |-> 0, minute |-> 0, second |-> 0,
                 microsecond |-> 0, nanosec |-> FALSE, warn |-> FALSE]
    IN  IF ~matched THEN none
        ELSE IF kf = 0 THEN [none EXCEPT !.kind = "raise"]
        ELSE [kind |-> "tuple",
              hour |-> DigitsVal(SubSeq(time_str, 1, k1)),
              minute |-> DigitsVal(SubSeq(time_str, k1 + 2, k1 + 3)),
              second |-> DigitsVal(SubSeq(time_str, k1 + 5, k1 + 6)),
              microsecond |-> IF in_nanoseconds
                              THEN DigitsVal(SubSeq(fracsec_str, 1, Len(fracsec_str) - 3))
                              ELSE DigitsVal(fracsec_str),
              nanosec |-> in_nanoseconds /\ ~ignore_warnings,
              warn |-> in_nanoseconds /\ ~ignore_warnings]

\* _get_time: kind "tuple" with the five values, "None" when re_time does
\* not match (the function falls off its end), "raise" when the match has
\* no fraction group (len(None) is a TypeError).  warn: the nanosecond
\* warning is emitted.  int(microsecond * 1E-3) drops the last three digits.
_get_time(time_str, ignore_warnings) ==
    LET k1 == DigitRun(time_str, 1, 2)
        matched == /\ k1 >= 1 /\ At(time_str, k1 + 1) = ":"
                   /\ DigitRun(time_str, k1 + 2, 2) = 2
                   /\ At(time_str, k1 + 4) = ":"
                   /\ DigitRun(time_str, k1 + 5, 2) = 2
        kf == IF At(time_str, k1 + 7) = "." THEN DigitRun(time_str, k1 + 8, 12) ELSE 0
        group5 == SubSeq(time_str, k1 + 8, k1 + 7 + kf)
        fracsec_str == IF Len(group5) <= 6
                       THEN fill_with_zeros_to_the_right(group5, 6)
                       ELSE fill_with_zeros_to_the_right(group5, 9)
        in_nanoseconds == Len(fracsec_str) > 6
        none == [kind |-> "None", hour |-> 0, minute |-> 0, second |-> 0,
                 microsecond |-> 0, nanosec |-> FALSE, warn |-> FALSE]
    IN  IF ~matched THEN none
        ELSE IF kf = 0 THEN [none EXCEPT !.kind = "raise"]
        ELSE [kind |-> "tuple",
              hour |-> DigitsVal(SubSeq(time_str, 1, k1)),
              minute |-> DigitsVal(SubSeq(time_str, k1 + 2, k1 + 3)),
              second |-> DigitsVal(SubSeq(time_str, k1 + 5, k1 + 6)),
              microsecond |-> IF in_nanoseconds
                              THEN DigitsVal(SubSeq(fracsec_str, 1, Len(fracsec_str) - 3))
                              ELSE DigitsVal(fracsec_str),
              nanosec |-> in_nanoseconds,
              warn |-> in_nanoseconds /\ ~ignore_warnings]

\* datetime.datetime(...) accepts the fields (ValueError otherwise)
IsLeap(y) == (y % 4 = 0 /\ y % 100 # 0) \/ y % 400 = 0
DaysInMonth(y, m) ==
    IF m = 2 THEN (IF IsLeap(y) THEN 29 ELSE 28)
    ELSE IF m \in {4, 6, 9, 11} THEN 30 ELSE 31
ValidDateTime(t) ==
    /\ t.year >= 1 /\ t.year <= 9999
    /\ t.month >= 1 /\ t.month <= 12
    /\ t.day >= 1 /\ t.day <= DaysInMonth(t.year, t.month)
    /\ t.hour <= 23 /\ t.minute <= 59 /\ t.second <= 59
    /\ t.microsecond <= 999999

DateTime(y, mo, d, h, mi, s, us) ==
    [year |-> y, month |-> mo, day |-> d, hour |-> h, minute |-> mi,
     second |-> s, microsecond |-> us]

\* _read_timestamp on the cells of the stripped line: [ok, timestamp,
\* nanosec, warns]; ok = FALSE when it raises
_read_timestamp(timestamp_line, rev_year, ignore_warnings) ==
    LET blank == Len(timestamp_line) = 1 /\ Len(Strip(timestamp_line[1])) = 0
        values == _read_sep_values(timestamp_line, 2, <<>>)
        date_str == values[1]
        time_str == values[2]
        useDate == ~blank /\ Len(Strip(date_str)) > 0
        useTime == ~blank /\ Len(Strip(time_str)) > 0
        d == IF useDate THEN _get_date(date_str) ELSE <<0, 0, 0>>
        day0   == IF rev_year = REV_1991 THEN d[2] ELSE d[1]
        month0 == IF rev_year = REV_1991 THEN d[1] ELSE d[2]
        year0  == d[3]
        t == IF useTime THEN _get_time(time_str, ignore_warnings)
             ELSE [kind |-> "tuple", hour |-> 0, minute |-> 0, second |-> 0,
                   microsecond |-> 0, nanosec |-> FALSE, warn |-> FALSE]
        using_min_data == year0 <= 0 \/ month0 <= 0 \/ day0 <= 0
        timestamp == DateTime(IF year0 <= 0 THEN 1 ELSE year0,
                              IF month0 <= 0 THEN 1 ELSE month0,
                              IF day0 <= 0 THEN 1 ELSE day0,
                              t.hour, t.minute, t.second, t.microsecond)
        ok == t.kind = "tuple" /\ ValidDateTime(timestamp)
    IN  [ok |-> ok, timestamp |-> timestamp, nanosec |-> t.nanosec,
         warns |-> (IF t.warn THEN {"WARNING_DATETIME_NANO"} ELSE {})
                   \cup (IF ok /\ using_min_data /\ ~ignore_warnings
                         THEN {"WARNING_MINDATE"} ELSE {})]

(***************************************************************************)
(* The Cfg object                                                          *)
(***************************************************************************)
None == [none |-> TRUE]

\* Cfg.__init__
CfgInit(ignore_warnings) ==
    [station_name |-> <<>>, rec_dev_id |-> <<>>, rev_year |-> INIT_REV_YEAR,
     channels_count |-> 0, analog_channels |-> <<>>, status_channels |-> <<>>,
     analog_count |-> 0, status_count |-> 0, frequency |-> 0, nrates |-> 1,
     sample_rates |-> <<>>, timestamp_critical |-> FALSE,
     start_timestamp |-> DateTime(1900, 1, 1, 0, 0, 0, 0),
     trigger_timestamp |-> DateTime(1900, 1, 1, 0, 0, 0, 0),
     time_base |-> TIME_BASE_MICROSEC, ft |-> TYPE_ASCII, time_multiplier |-> 1,
     time_code |-> INIT_CODE, local_code |-> INIT_CODE,
     tmq_code |-> INIT_CODE, leap_second |-> INIT_CODE,
     ignore_warnings |-> ignore_warnings, filepath |-> <<>>]

\* Cfg._get_time_base; a smaller base (min) is a larger number of units per second
_get_time_base(using_nanoseconds) ==
    IF using_nanoseconds THEN TIME_BASE_NANOSEC ELSE TIME_BASE_MICROSEC
\* a variant of MinTimeBase that keeps the coarser of the two bases
CoarserTimeBase(x, y) == IF x >= y THEN y ELSE x
MinTimeBase(x, y) == IF x >= y THEN x ELSE y

AnalogChannel(n, a, b, skew, cmin, cmax, name, uu, ph, ccbm, primary, secondary, pors) ==
    [n |-> n, a |-> a, b |-> b, skew |-> skew, cmin |-> cmin, cmax |-> cmax,
     name |-> name, uu |-> uu, ph |-> ph, ccbm |-> ccbm,
     primary |-> primary, secondary |-> secondary, pors |-> pors]
StatusChannel(n, name, ph, ccbm, y) ==
    [n |-> n, name |-> name, ph |-> ph, ccbm |-> ccbm, y |-> y]

\* [None] * count
NoneList(count) == [i \in 1..count |-> None]
\* the loop index ichn (0-based): the entries before it are filled
Filled(list) == Cardinality({i \in 1..Len(list) : list[i] # None})
ButLast(s) == SubSeq(s, 1, Len(s) - 1)

\* where _read_io goes on after the count line / the analog lines / ...
AfterCounts(c) ==
    IF Filled(c.analog_channels) < c.analog_count THEN "analog"
    ELSE IF Filled(c.status_channels) < c.status_count THEN "status"
    ELSE "frequency"
AfterNrates(c) == IF Len(c.sample_rates) < c.nrates THEN "rate" ELSE "start"
AfterFt(c) ==
    IF c.rev_year \in {REV_1999, REV_2013} THEN "timemult"
    ELSE "cfg_read"
\* a variant of AfterTimemult that has the two code lines follow the time
\* multiplier under every revision that has a multiplier line
CodesAfterEveryMultiplier(c) == "time_code"
AfterTimemult(c) == IF c.rev_year = REV_2013 THEN "time_code" ELSE "cfg_read"

(***************************************************************************)
(* The input streams.  The configuration lines offered to Cfg.read are the *)
(* reference stream (RefLine) and, for at most MaxVar lines of a stream,   *)
(* one of the variants of AltLines; Comtrade.read is offered the lines of  *)
(* DecodeLines, which vary what the decoders depend on.                    *)
(***************************************************************************)
MaxVar == 2
MaxSamples == 2
MaxExtraRows == 1

\* the texts of the streams
CELL_IA ==
    <<"I", "A">>
CELL_A ==
    <<"A">>
CELL_0 ==
    <<"0">>
CELL_1 ==
    <<"1">>
CELL_2 ==
    <<"2">>
CELL_CMIN ==
    <<"-", "3", "2", "7", "6", "8">>
CELL_CMAX ==
    <<"3", "2", "7", "6", "7">>
CELL_S ==
    <<"S">>
CELL_ST ==
    <<"S", "T">>
CELL_500 ==
    <<"5", "0", "0">>
CELL_9 ==
    <<"9">>
CELL_MISSING ==
    <<"4", "2", "9", "4", "9", "6", "7", "2", "9", "5">>
CELL_1000 ==
    <<"1", "0", "0", "0">>
LINE_REV1999 ==
    <<<<"S", "T">>, <<"E", "Q">>, <<"1", "9", "9", "9">>>>
LINE_REV1991 ==
    <<<<"S", "T">>, <<"E", "Q">>, <<"1", "9", "9", "1">>>>
LINE_COUNTS ==
    <<<<"2">>, <<"1", "A">>, <<"1", "D">>>>
LINE_60 ==
    <<<<"6", "0">>>>
LINE_0 ==
    <<<<"0">>>>
LINE_1 ==
    <<<<"1">>>>
LINE_2 ==
    <<<<"2">>>>
LINE_START ==
    <<<<"0", "1", "/", "0", "1", "/", "2", "0", "0", "0">>, <<"1", "0", ":", "3", "0", ":", "0", "0", ".", "2", "2", "8", "0", "0", "0">>>>
LINE_TRIGGER ==
    <<<<" ", "0", "1", "/", "0", "1", "/", "2", "0", "0", "0">>, <<"1", "0", ":", "3", "0", ":", "0", "0", ".", "7", "2", "2", "0", "0", "0">>>>
LINE_NANO ==
    <<<<"0", "1", "/", "0", "1", "/", "2", "0", "1", "9">>, <<"0", "0", ":", "0", "0", ":", "0", "2", ".", "0", "0", "0", "0", "0", "0", "0", "0", "0">>>>
LINE_TIMECODE ==
    <<<<"-", "3">>, <<"-", "3">>>>
LINE_TMQ ==
    <<<<"B">>, <<"3">>>>
LINE_ANALOG_B ==
    <<<<"7">>, <<"I", "B">>, <<"B">>, <<>>, <<"V">>, <<"3">>, <<>>, <<>>, <<"-", "5">>, <<"5">>, <<"1">>, <<"1">>, <<"P">>>>
LINE_ANALOG_C ==
    <<<<"1">>, <<"I", "C">>, <<"C">>, <<>>, <<"V">>, <<"5">>, <<"2">>, <<"0">>, <<"-", "5">>, <<"5">>, <<"1">>, <<"1">>, <<"P">>>>
LINE_STATUS_B ==
    <<<<"1">>, <<"S", "B">>, <<"C">>, <<>>, <<"1">>>>
ALT_LINE1 ==
    {<<<<"S", "T">>, <<"E", "Q">>>>,
     <<<<"S", "T">>, <<"E", "Q">>, <<"1", "9", "9", "1">>>>,
     <<<<"S", "T">>, <<"E", "Q">>, <<"2", "0", "1", "3">>>>,
     <<<<"S", "T">>, <<"E", "Q">>, <<" ", "2", "0", "0", "1">>>>,
     <<<<"S", "T">>>>}
ALT_LINE2 ==
    {<<<<"3">>, <<"2", "A">>, <<"1", "D">>>>,
     <<<<"3">>, <<"1", "A">>, <<"2", "D">>>>,
     <<<<"1">>, <<"0", "A">>, <<"1", "D">>>>,
     <<<<"5">>, <<"2", "A">>, <<"2", "D">>>>,
     <<<<"2">>, <<"1">>, <<"1">>>>,
     <<<<"2">>, <<"1", "A">>>>}
ALT_ANALOG ==
    {<<<<"7">>, <<"I", "B">>, <<"B">>, <<>>, <<"V">>, <<"3">>, <<>>, <<>>, <<"-", "5">>, <<"5">>, <<"1">>, <<"1">>, <<"P">>>>,
     <<<<"1">>, <<"I", "A">>, <<>>, <<>>, <<"A">>, <<"2">>>>,
     <<<<"1">>, <<"I", "A">>>>}
ALT_STATUS ==
    {<<<<"1">>, <<"S", "B">>, <<"C">>, <<>>, <<"1">>>>,
     <<<<"4">>, <<"S", "4">>>>,
     <<<<"2">>, <<"S", "T">>, <<>>, <<>>, <<>>>>}
ALT_FREQ ==
    {<<<<"5", "0">>>>,
     <<<<"x">>>>}
ALT_NRATES ==
    {<<<<"1">>>>,
     <<<<"2">>>>}
ALT_RATE ==
    {<<<<"1", "0", "0", "0">>, <<"2">>>>,
     <<<<"1", "0", "0", "0">>, <<"1">>>>,
     <<<<"0">>>>}
ALT_STAMP ==
    {<<<<"0", "1", "/", "0", "1", "/", "2", "0", "1", "9">>, <<"0", "0", ":", "0", "0", ":", "0", "2", ".", "0", "0", "0", "0", "0", "0", "0", "0", "0">>>>,
     <<<<>>, <<>>>>,
     <<<<"0", "0", "/", "0", "0", "/", "0", "0", "0", "0">>, <<"1", "0", ":", "3", "0", ":", "0", "0", ".", "5">>>>,
     <<<<"0", "1", "/", "0", "1", "/", "2", "0", "0", "0">>, <<"1", "0", ":", "3", "0", ":", "0", "0">>>>}
ALT_FT ==
    {<<<<"B", "I", "N", "A", "R", "Y">>>>,
     <<<<"f", "l", "o", "a", "t", "3", "2">>>>,
     <<<<"X", "M", "L">>>>}
ALT_TIMEMULT ==
    {<<<<"2">>>>,
     <<<<"x">>>>}
ALT_CODES ==
    {<<<<"0">>>>}
DEC_COUNTS ==
    {<<<<"1">>, <<"1", "A">>, <<"0", "D">>>>,
     <<<<"1">>, <<"0", "A">>, <<"1", "D">>>>,
     <<<<"4">>, <<"2", "A">>, <<"2", "D">>>>}
DEC_NRATES ==
    {<<<<"0">>>>,
     <<<<"1">>>>,
     <<<<"2">>>>}
DEC_FT ==
    {<<<<"A", "S", "C", "I", "I">>>>,
     <<<<"B", "I", "N", "A", "R", "Y">>>>,
     <<<<"B", "I", "N", "A", "R", "Y", "3", "2">>>>,
     <<<<"f", "l", "o", "a", "t", "3", "2">>>>,
     <<<<"X", "M", "L">>>>}

\* a blank line ("\n")
BlankLine == << <<>> >>

\* the text of an integer
DecInt(x) == IF x < 0 THEN <<"-">> \o Dec(0 - x) ELSE Dec(x)

\* an analog channel line and a status channel line of the reference stream
RefAnalogLine(n) ==
    <<Dec(n), CELL_IA, <<>>, <<>>, CELL_A, CELL_2, CELL_1, CELL_0,
      CELL_CMIN, CELL_CMAX, CELL_1, CELL_1, CELL_S>>
RefStatusLine(n) == <<Dec(n), CELL_ST, <<>>, <<>>, CELL_0>>

\* the reference line at position p, c being the Cfg object so far
RefLine(p, c) ==
    CASE p = "line1" -> LINE_REV1999
      [] p = "line2" -> LINE_COUNTS
      [] p = "analog" -> RefAnalogLine(Filled(c.analog_channels) + 1)
      [] p = "status" -> RefStatusLine(Filled(c.status_channels) + 1)
      [] p = "frequency" -> LINE_60
      [] p = "nrates" -> LINE_0
      [] p = "rate" -> <<CELL_0, Dec(MaxSamples)>>
      [] p = "start" -> LINE_START
      [] p = "trigger" -> LINE_TRIGGER
      [] p = "ft" -> <<TYPE_ASCII>>
      [] p = "timemult" -> LINE_1
      [] p = "time_code" -> LINE_TIMECODE
      [] p = "tmq_code" -> LINE_TMQ

\* the variants of the line at position p
AltLines(p) ==
    CASE p = "line1" -> ALT_LINE1 \cup {EOF}
      [] p = "line2" -> ALT_LINE2
      [] p = "analog" -> ALT_ANALOG \cup {EOF}
      [] p = "status" -> ALT_STATUS
      [] p = "frequency" -> {BlankLine} \cup ALT_FREQ
      [] p = "nrates" -> {BlankLine} \cup ALT_NRATES
      [] p = "rate" -> ALT_RATE
      [] p = "start" -> {BlankLine} \cup ALT_STAMP
      [] p = "trigger" -> {BlankLine} \cup ALT_STAMP
      [] p = "ft" -> ALT_FT \cup {EOF}
      [] p = "timemult" -> {BlankLine, EOF} \cup ALT_TIMEMULT
      [] p = "time_code" -> {EOF} \cup ALT_CODES
      [] p = "tmq_code" -> {EOF}

\* the lines offered to Comtrade.read at position p
DecodeLines(p, c) ==
    CASE p = "line1" -> {LINE_REV1999}
      [] p = "line2" -> DEC_COUNTS
      [] p = "analog" -> IF Filled(c.analog_channels) = 0 THEN {RefAnalogLine(1)}
                         ELSE {LINE_ANALOG_C, LINE_ANALOG_B}
      [] p = "status" -> IF Filled(c.status_channels) = 0 THEN {RefStatusLine(1)}
                         ELSE {LINE_STATUS_B}
      [] p = "frequency" -> {LINE_60}
      [] p = "nrates" -> DEC_NRATES
      [] p = "rate" ->
            IF c.nrates = 1
            THEN {<<r, Dec(e)>> : r \in {CELL_0, CELL_1000}, e \in 1..MaxSamples}
            ELSE IF c.sample_rates = <<>> THEN {<<CELL_1000, Dec(1)>>}
            ELSE {<<CELL_500, Dec(MaxSamples)>>}
      [] p = "start" -> {LINE_START}
      [] p = "trigger" -> {LINE_TRIGGER, LINE_NANO}
      [] p = "ft" -> DEC_FT
      [] p = "timemult" -> {BlankLine, LINE_2}

\* what readline() may return at position p
Lines(p) ==
    IF pc # p THEN {}
    ELSE IF cfgIn # <<>> /\ cfgIn[Len(cfgIn)] = EOF THEN {EOF}
    ELSE IF entry = "Comtrade.read" THEN DecodeLines(p, cfg)
    ELSE IF nvar < MaxVar THEN {RefLine(p, cfg)} \cup AltLines(p)
    ELSE {RefLine(p, cfg)}
Varied(line) == IF entry = "Cfg.read" /\ line # RefLine(pc, cfg) THEN 1 ELSE 0

(***************************************************************************)
(* Cfg._read_io, one action per line of the grammar.  A line is drawn when *)
(* it is read; once the stream has ended every further readline() is EOF.  *)
(***************************************************************************)
Raise(e) == pc' = "error" /\ err' = e

\* a variant of ReadFirstLine that takes the stream default of 1999 when
\* line 1 has no revision field
FirstLineDefault1999(line) ==
    /\ pc = "line1"
    /\ cfgIn' = Append(cfgIn, line)
    /\ nvar' = nvar + Varied(line)
    /\ LET packed == _read_sep_values(Cells(line), -1, <<>>)
           c0 == [cfg EXCEPT !.nrates = 1, !.sample_rates = <<>>,
                             !.analog_channels = <<>>, !.status_channels = <<>>]
       IN  IF Len(packed) = 3
           THEN /\ cfg' = [c0 EXCEPT !.station_name = packed[1],
                                     !.rec_dev_id = packed[2],
                                     !.rev_year = Strip(packed[3])]
                /\ warns' = IF /\ Strip(packed[3]) \notin {REV_1991, REV_1999, REV_2013}
                               /\ ~cfg.ignore_warnings
                            THEN warns \cup {"WARNING_UNKNOWN_REVISION"} ELSE warns
                /\ pc' = "line2" /\ err' = err
           ELSE IF Len(packed) = 2
           THEN /\ cfg' = [c0 EXCEPT !.station_name = packed[1],
                                     !.rec_dev_id = packed[2],
                                     !.rev_year = REV_1999]
                /\ pc' = "line2" /\ UNCHANGED <<err, warns>>
           ELSE /\ cfg' = c0 /\ Raise("ValueError") /\ UNCHANGED warns
    /\ UNCHANGED <<earlier, cff, pair, entry, ct, dat, datIn, datTail>>

\* line 1: station, device and revision
ReadFirstLine(line) ==
    /\ pc = "line1"
    /\ cfgIn' = Append(cfgIn, line)
    /\ nvar' = nvar + Varied(line)
    /\ LET packed == _read_sep_values(Cells(line), -1, <<>>)
           c0 == [cfg EXCEPT !.nrates = 1, !.sample_rates = <<>>,
                             !.analog_channels = <<>>, !.status_channels = <<>>]
       IN  IF Len(packed) = 3
           THEN /\ cfg' = [c0 EXCEPT !.station_name = packed[1],
                                     !.rec_dev_id = packed[2],
                                     !.rev_year = Strip(packed[3])]
                /\ warns' = IF /\ Strip(packed[3]) \notin {REV_1991, REV_1999, REV_2013}
                               /\ ~cfg.ignore_warnings
                            THEN warns \cup {"WARNING_UNKNOWN_REVISION"} ELSE warns
                /\ pc' = "line2" /\ err' = err
           ELSE IF Len(packed) = 2
           THEN /\ cfg' = [c0 EXCEPT !.station_name = packed[1],
                                     !.rec_dev_id = packed[2],
                                     !.rev_year = REV_1991]
                /\ pc' = "line2" /\ UNCHANGED <<err, warns>>
           ELSE /\ cfg' = c0 /\ Raise("ValueError") /\ UNCHANGED warns
    /\ UNCHANGED <<earlier, cff, pair, entry, ct, dat, datIn, datTail>>

\* a variant of ReadCountsLine that takes the status count from the analog cell
CountsLineAnalogTwice(line) ==
    /\ pc = "line2"
    /\ cfgIn' = Append(cfgIn, line)
    /\ nvar' = nvar + Varied(line)
    /\ LET v == _read_sep_values(Cells(line), 3, <<"0">>)
           totchn == v[1]
           achn == ButLast(v[2])
           schn == ButLast(v[2])
           c1 == [cfg EXCEPT !.channels_count = IntOf(totchn)]
           c2 == [c1 EXCEPT !.analog_count = IntOf(achn)]
           c3 == [c2 EXCEPT !.status_count = IntOf(schn),
                            !.analog_channels = NoneList(IntOf(achn)),
                            !.status_channels = NoneList(IntOf(schn))]
       IN  IF ~IsIntText(totchn) THEN cfg' = cfg /\ Raise("ValueError")
           ELSE IF ~IsIntText(achn) THEN cfg' = c1 /\ Raise("ValueError")
           ELSE IF ~IsIntText(schn) THEN cfg' = c2 /\ Raise("ValueError")
           ELSE cfg' = c3 /\ pc' = AfterCounts(c3) /\ err' = err
    /\ UNCHANGED <<earlier, cff, pair, entry, ct, dat, datIn, datTail, warns>>

\* line 2: the channel counts
ReadCountsLine(line) ==
    /\ pc = "line2"
    /\ cfgIn' = Append(cfgIn, line)
    /\ nvar' = nvar + Varied(line)
    /\ LET v == _read_sep_values(Cells(line), 3, <<"0">>)
           totchn == v[1]
           achn == ButLast(v[2])
           schn == ButLast(v[3])
           c1 == [cfg EXCEPT !.channels_count = IntOf(totchn)]
           c2 == [c1 EXCEPT !.analog_count = IntOf(achn)]
           c3 == [c2 EXCEPT !.status_count = IntOf(schn),
                            !.analog_channels = NoneList(IntOf(achn)),
                            !.status_channels = NoneList(IntOf(schn))]
       IN  IF ~IsIntText(totchn) THEN cfg' = cfg /\ Raise("ValueError")
           ELSE IF ~IsIntText(achn) THEN cfg' = c1 /\ Raise("ValueError")
           ELSE IF ~IsIntText(schn) THEN cfg' = c2 /\ Raise("ValueError")
           ELSE cfg' = c3 /\ pc' = AfterCounts(c3) /\ err' = err
    /\ UNCHANGED <<earlier, cff, pair, entry, ct, dat, datIn, datTail, warns>>

\* one analog channel description line
ReadAnalogLine(line) ==
    /\ pc = "analog"
    /\ cfgIn' = Append(cfgIn, line)
    /\ nvar' = nvar + Varied(line)
    /\ LET v == _read_sep_values(Cells(line), 13, <<"0">>)
           ichn == Filled(cfg.analog_channels)
           b == _prevent_null(v[7], 0)
           skew == _prevent_null(v[8], 0)
           ok == /\ IsIntText(v[1]) /\ IsFloatText(v[6]) /\ b.ok /\ skew.ok
                 /\ IsFloatText(v[9]) /\ IsFloatText(v[10])
                 /\ IsFloatText(v[11]) /\ IsFloatText(v[12])
           c1 == [cfg EXCEPT !.analog_channels[ichn + 1] =
                     AnalogChannel(IntOf(v[1]), FloatOf(v[6]), b.v, skew.v,
                                   FloatOf(v[9]), FloatOf(v[10]), v[2], v[5],
                                   v[3], v[4], FloatOf(v[11]), FloatOf(v[12]), v[13])]
       IN  IF ok THEN cfg' = c1 /\ pc' = AfterCounts(c1) /\ err' = err
           ELSE cfg' = cfg /\ Raise("ValueError")
    /\ UNCHANGED <<earlier, cff, pair, entry, ct, dat, datIn, datTail, warns>>

\* one status channel description line
ReadStatusLine(line) ==
    /\ pc = "status"
    /\ cfgIn' = Append(cfgIn, line)
    /\ nvar' = nvar + Varied(line)
    /\ LET v == _read_sep_values(Cells(line), 5, <<"0">>)
           ichn == Filled(cfg.status_channels)
           y == _prevent_null(v[5], 0)
           c1 == [cfg EXCEPT !.status_channels[ichn + 1] =
                     StatusChannel(IntOf(v[1]), v[2], v[3], v[4], y.v)]
       IN  IF IsIntText(v[1]) /\ y.ok
           THEN cfg' = c1 /\ pc' = AfterCounts(c1) /\ err' = err
           ELSE cfg' = cfg /\ Raise("ValueError")
    /\ UNCHANGED <<earlier, cff, pair, entry, ct, dat, datIn, datTail, warns>>

\* the frequency line: a blank line leaves _frequency as it is
ReadFrequencyLine(line) ==
    /\ pc = "frequency"
    /\ cfgIn' = Append(cfgIn, line)
    /\ nvar' = nvar + Varied(line)
    /\ LET text == Strip(LineText(Cells(line)))
       IN  IF Len(text) = 0 THEN cfg' = cfg /\ pc' = "nrates" /\ err' = err
           ELSE IF IsFloatText(text)
           THEN /\ cfg' = [cfg EXCEPT !.frequency = FloatOf(text)]
                /\ pc' = "nrates" /\ err' = err
           ELSE cfg' = cfg /\ Raise("ValueError")
    /\ UNCHANGED <<earlier, cff, pair, entry, ct, dat, datIn, datTail, warns>>

\* a variant of ReadNratesLine that leaves the flag clear on a count of 0
NratesLineFlagClear(line) ==
    /\ pc = "nrates"
    /\ cfgIn' = Append(cfgIn, line)
    /\ nvar' = nvar + Varied(line)
    /\ LET text == Strip(LineText(Cells(line)))
           c1 == IF IntOf(text) = 0
                 THEN [cfg EXCEPT !.nrates = 1, !.timestamp_critical = FALSE]
                 ELSE [cfg EXCEPT !.nrates = IntOf(text), !.timestamp_critical = FALSE]
       IN  IF IsIntText(text) THEN cfg' = c1 /\ pc' = AfterNrates(c1) /\ err' = err
           ELSE cfg' = cfg /\ Raise("ValueError")
    /\ UNCHANGED <<earlier, cff, pair, entry, ct, dat, datIn, datTail, warns>>

\* the rate count line: 0 stands for one rate line and critical time stamps
ReadNratesLine(line) ==
    /\ pc = "nrates"
    /\ cfgIn' = Append(cfgIn, line)
    /\ nvar' = nvar + Varied(line)
    /\ LET text == Strip(LineText(Cells(line)))
           c1 == IF IntOf(text) = 0
                 THEN [cfg EXCEPT !.nrates = 1, !.timestamp_critical = TRUE]
                 ELSE [cfg EXCEPT !.nrates = IntOf(text), !.timestamp_critical = FALSE]
       IN  IF IsIntText(text) THEN cfg' = c1 /\ pc' = AfterNrates(c1) /\ err' = err
           ELSE cfg' = cfg /\ Raise("ValueError")
    /\ UNCHANGED <<earlier, cff, pair, entry, ct, dat, datIn, datTail, warns>>

\* one sample rate line: rate, last sample
ReadSampleRateLine(line) ==
    /\ pc = "rate"
    /\ cfgIn' = Append(cfgIn, line)
    /\ nvar' = nvar + Varied(line)
    /\ LET v == _read_sep_values(Cells(line), -1, <<>>)
           c1 == [cfg EXCEPT !.sample_rates =
                     Append(@, <<FloatOf(v[1]), IntOf(v[2])>>)]
       IN  IF Len(v) = 2 /\ IsFloatText(v[1]) /\ IsIntText(v[2])
           THEN cfg' = c1 /\ pc' = AfterNrates(c1) /\ err' = err
           ELSE cfg' = cfg /\ Raise("ValueError")
    /\ UNCHANGED <<earlier, cff, pair, entry, ct, dat, datIn, datTail, warns>>

\* the start time stamp line: sets the time base
ReadStartTimestamp(line) ==
    /\ pc = "start"
    /\ cfgIn' = Append(cfgIn, line)
    /\ nvar' = nvar + Varied(line)
    /\ LET r == _read_timestamp(Cells(line), cfg.rev_year, cfg.ignore_warnings)
       IN  /\ warns' = warns \cup r.warns
           /\ IF r.ok
              THEN /\ cfg' = [cfg EXCEPT !.start_timestamp = r.timestamp,
                                         !.time_base = _get_time_base(r.nanosec)]
                   /\ pc' = "trigger" /\ err' = err
              ELSE cfg' = cfg /\ Raise("TypeError or ValueError")
    /\ UNCHANGED <<earlier, cff, pair, entry, ct, dat, datIn, datTail>>

\* the trigger time stamp line: the finer of the two bases is kept
ReadTriggerTimestamp(line) ==
    /\ pc = "trigger"
    /\ cfgIn' = Append(cfgIn, line)
    /\ nvar' = nvar + Varied(line)
    /\ LET r == _read_timestamp(Cells(line), cfg.rev_year, cfg.ignore_warnings)
       IN  /\ warns' = warns \cup r.warns
           /\ IF r.ok
              THEN /\ cfg' = [cfg EXCEPT !.trigger_timestamp = r.timestamp,
                                 !.time_base = MinTimeBase(cfg.time_base,
                                                   _get_time_base(r.nanosec))]
                   /\ pc' = "ft" /\ err' = err
              ELSE cfg' = cfg /\ Raise("TypeError or ValueError")
    /\ UNCHANGED <<earlier, cff, pair, entry, ct, dat, datIn, datTail>>

\* the data file type line, stored as written
ReadFileType(line) ==
    /\ pc = "ft"
    /\ cfgIn' = Append(cfgIn, line)
    /\ nvar' = nvar + Varied(line)
    /\ cfg' = [cfg EXCEPT !.ft = Strip(LineText(Cells(line)))]
    /\ pc' = AfterFt(cfg)
    /\ UNCHANGED <<earlier, cff, pair, entry, err, ct, dat, datIn, datTail, warns>>

\* the time multiplier line, read for revisions 1999 and 2013 only
ReadTimeMultiplier(line) ==
    /\ pc = "timemult"
    /\ cfgIn' = Append(cfgIn, line)
    /\ nvar' = nvar + Varied(line)
    /\ LET text == Strip(LineText(Cells(line)))
       IN  IF Len(text) = 0
           THEN /\ cfg' = [cfg EXCEPT !.time_multiplier = 1]
                /\ pc' = AfterTimemult(cfg) /\ err' = err
           ELSE IF IsFloatText(text)
           THEN /\ cfg' = [cfg EXCEPT !.time_multiplier = FloatOf(text)]
                /\ pc' = AfterTimemult(cfg) /\ err' = err
           ELSE cfg' = cfg /\ Raise("ValueError")
    /\ UNCHANGED <<earlier, cff, pair, entry, ct, dat, datIn, datTail, warns>>

\* time_code, local_code (revision 2013): skipped when the stream has ended
ReadTimeCodes(line) ==
    /\ pc = "time_code"
    /\ cfgIn' = Append(cfgIn, line)
    /\ nvar' = nvar + Varied(line)
    /\ LET v == _read_sep_values(Cells(line), -1, <<>>)
       IN  IF line = EOF THEN cfg' = cfg /\ pc' = "cfg_read" /\ err' = err
           ELSE IF Len(v) = 2
           THEN /\ cfg' = [cfg EXCEPT !.time_code = v[1], !.local_code = v[2]]
                /\ pc' = "tmq_code" /\ err' = err
           ELSE cfg' = cfg /\ Raise("ValueError")
    /\ UNCHANGED <<earlier, cff, pair, entry, ct, dat, datIn, datTail, warns>>

\* tmq_code, leap_second (revision 2013)
ReadTmqCodes(line) ==
    /\ pc = "tmq_code"
    /\ cfgIn' = Append(cfgIn, line)
    /\ nvar' = nvar + Varied(line)
    /\ LET v == _read_sep_values(Cells(line), -1, <<>>)
       IN  IF Len(v) = 2
           THEN /\ cfg' = [cfg EXCEPT !.tmq_code = v[1], !.leap_second = v[2]]
                /\ pc' = "cfg_read" /\ err' = err
           ELSE cfg' = cfg /\ Raise("ValueError")
    /\ UNCHANGED <<earlier, cff, pair, entry, ct, dat, datIn, datTail, warns>>

(***************************************************************************)
(* The DAT readers                                                         *)
(***************************************************************************)
Zero == <<0, 1>>
\* a variant of _preallocate_values that is one element short
ShortPreallocate(zero, size) == [i \in 1..size - 1 |-> zero]
\* _preallocate_values: an array of size zeros (empty for a negative size)
_preallocate_values(zero, size) == [i \in 1..size |-> zero]

\* DatReader.__init__ ; class names the subclass that _get_dat_reader built
DatReaderInit(class) ==
    [class |-> class, time |-> <<>>, analog |-> <<>>, status |-> <<>>,
     total_samples |-> 0, file_path |-> <<>>]

\* DatReader._preallocate (sample_rates is not empty)
_preallocate(d, c) ==
    LET steps == c.sample_rates[Len(c.sample_rates)][2]
    IN  [d EXCEPT !.total_samples = steps,
                  !.time = _preallocate_values(Zero, steps),
                  !.analog = [i \in 1..c.analog_count |-> _preallocate_values(0, steps)],
                  !.status = [i \in 1..c.status_count |-> _preallocate_values(0, steps)]]

\* a variant of _get_samp that does not search: the first segment's rate
FirstSegmentRate(sample_rates, n) ==
    IF sample_rates = <<>> THEN 1 ELSE sample_rates[1][1]
\* DatReader._get_samp: the rate of the first segment that holds sample n
RECURSIVE _get_samp(_, _)
_get_samp(sample_rates, n) ==
    IF sample_rates = <<>> THEN 1
    ELSE IF n <= sample_rates[1][2] THEN sample_rates[1][1]
    ELSE _get_samp(Tail(sample_rates), n)

\* a variant of DatReader._get_time with the roles of the flag exchanged:
\* computed time when the stamps are critical, the stamp when they are not
ExchangedGetTime(c, n, ts_value, time_base, time_multiplier) ==
    LET sample_rate == _get_samp(c.sample_rates, n)
    IN  IF c.timestamp_critical \/ ts_value = TIMESTAMP_MISSING
        THEN IF sample_rate # 0
             THEN [ok |-> TRUE, t |-> Rat(n - 1, sample_rate)]
             ELSE [ok |-> FALSE, t |-> Zero]
        ELSE [ok |-> TRUE,
              t |-> Rat(U32Nat(ts_value) * time_multiplier, time_base)]
\* DatReader._get_time: [ok |-> FALSE] when it raises
DatReader_get_time(c, n, ts_value, time_base, time_multiplier) ==
    LET sample_rate == _get_samp(c.sample_rates, n)
    IN  IF ~c.timestamp_critical \/ ts_value = TIMESTAMP_MISSING
        THEN IF sample_rate # 0
             THEN [ok |-> TRUE, t |-> Rat(n - 1, sample_rate)]
             ELSE [ok |-> FALSE, t |-> Zero]
        ELSE [ok |-> TRUE,
              t |-> Rat(U32Nat(ts_value) * time_multiplier, time_base)]

\* a variant of the gains that looks a channel up by its index field n
GainByIndexField(c) ==
    [i \in 1..Len(c.analog_channels) |->
        LET n == c.analog_channels[i].n
        IN  c.analog_channels[IF n \in 1..Len(c.analog_channels) THEN n ELSE i].a]
\* a variant of the offsets that drops them
NoOffset(c) == [i \in 1..Len(c.analog_channels) |-> 0]
\* the gains and offsets, by list position
GainVector(c) == [i \in 1..Len(c.analog_channels) |-> c.analog_channels[i].a]
OffsetVector(c) == [i \in 1..Len(c.analog_channels) |-> c.analog_channels[i].b]

\* a variant of PySliceFrom for the status fields of a row: the fields at
\* a fixed offset, right after the analog fields
StatusAtFixedOffset(values, k) ==
    SubSeq(values, cfg.analog_count + 3,
           IF cfg.analog_count + 2 + cfg.status_count < Len(values)
           THEN cfg.analog_count + 2 + cfg.status_count ELSE Len(values))
\* values[k:] for a Python list (0-based k, negative k counts from the end)
PySliceFrom(values, k) ==
    LET start == IF k >= 0 THEN k
                 ELSE IF Len(values) + k > 0 THEN Len(values) + k ELSE 0
    IN  SubSeq(values, start + 1, Len(values))
\* values[2:stop]
PySlice2To(values, stop) ==
    SubSeq(values, 3, IF stop < Len(values) THEN stop ELSE Len(values))

\* One row of AsciiDatReader.parse, line_number being its 1-based position:
\* [ok, time, avalues, svalues]
AsciiRow(c, values) ==
    LET analog_count == c.analog_count
        status_count == c.status_count
        a == GainVector(c)
        b == OffsetVector(c)
        acells == PySlice2To(values, analog_count + 2)
        scells == PySliceFrom(values, Len(values) - status_count)
        okHead == /\ IsIntText(values[1])
                  /\ Len(values) >= 2
                  /\ AllDigits(Strip(values[2])) /\ Strip(values[2]) # <<>>
        ts == DatReader_get_time(c, IntOf(values[1]), U32Of(Strip(values[2])),
                                 c.time_base, c.time_multiplier)
        okCells == /\ \A i \in 1..Len(acells) : IsFloatText(acells[i])
                   /\ \A i \in 1..Len(scells) : IsIntText(scells[i])
                   /\ Len(acells) >= analog_count
                   /\ Len(scells) >= status_count
    IN  IF okHead /\ ts.ok /\ okCells
        THEN [ok |-> TRUE, err |-> "", time |-> ts.t,
              avalues |-> [i \in 1..Len(acells) |-> FloatOf(acells[i]) * a[i] + b[i]],
              svalues |-> [i \in 1..Len(scells) |-> IntOf(scells[i])]]
        ELSE [ok |-> FALSE,
              err |-> IF okHead /\ ~ts.ok
                      THEN "Exception: Missing timestamp and no sample rate provided."
                      ELSE "ValueError or IndexError",
              time |-> Zero, avalues |-> <<>>, svalues |-> <<>>]

\* the store of a decoded row at 1-based position row
StoreRow(d, row, time, avalues, svalues) ==
    [d EXCEPT !.time[row] = time,
              !.analog = [i \in 1..Len(d.analog) |-> [d.analog[i] EXCEPT ![row] = avalues[i]]],
              !.status = [i \in 1..Len(d.status) |-> [d.status[i] EXCEPT ![row] = svalues[i]]]]

\* BinaryDatReader: the byte sizes set by the constructors
STATUS_BYTES == 2
TIME_BYTES == 4
SAMPLE_NUMBER_BYTES == 4
ANALOG_BYTES(class) == IF class = "BinaryDatReader" THEN 2 ELSE 4

CeilDiv16(x) == (x + 15) \div 16

\* dbytes and groups_of_16bits of BinaryDatReader.parse
StatusBytes(schannel) == STATUS_BYTES * CeilDiv16(schannel)
GroupsOf16Bits(schannel) == StatusBytes(schannel) \div STATUS_BYTES

\* BinaryDatReader.get_reader_format: the chosen struct format as
\* [ok, acount, dcount] (the fields after the two 4 byte integers);
\* ok = FALSE when str.format raises KeyError, which the status only
\* template does: it names dcount and is given acount
get_reader_format(analog_channels, status_bytes) ==
    LET dcount == status_bytes \div 2
    IN  IF status_bytes > 0 /\ analog_channels > 0
        THEN [ok |-> TRUE, acount |-> analog_channels, dcount |-> dcount]
        ELSE IF analog_channels > 0
        THEN [ok |-> TRUE, acount |-> analog_channels, dcount |-> 0]
        ELSE [ok |-> FALSE, acount |-> 0, dcount |-> 0]

\* struct.Struct(format).size
StructSize(class, fmt) ==
    SAMPLE_NUMBER_BYTES + TIME_BYTES + fmt.acount * ANALOG_BYTES(class)
        + fmt.dcount * STATUS_BYTES

\* a variant of Bit that counts from the most significant bit
BitFromMsb(group, chnindex) == (group \div (2 ^ (15 - chnindex))) % 2
\* bit chnindex of a 16 bit group: (group & (1 << chnindex)) >> chnindex
Bit(group, chnindex) == (group \div (2 ^ chnindex)) % 2

\* the status loop of BinaryDatReader.parse on one unpacked row: the value
\* stored for each status channel (old where no group covers the channel)
BinaryStatus(values, achannels, schannel, old) ==
    [k \in 1..schannel |->
        LET ichannel == k - 1
            igroup == ichannel \div 16
            chnindex == ichannel - igroup * 16
        IN  IF igroup < GroupsOf16Bits(schannel)
            THEN Bit(values[achannels + 2 + igroup + 1], chnindex)
            ELSE old[k]]

\* the analog loop of BinaryDatReader.parse on one unpacked row
BinaryAnalog(values, c) ==
    [i \in 1..c.analog_count |-> GainVector(c)[i] * values[i + 2] + OffsetVector(c)[i]]

(***************************************************************************)
(* The Comtrade object and Comtrade.read                                   *)
(***************************************************************************)
\* Comtrade.__init__ (total_samples is no attribute yet: -1)
ComtradeInit ==
    [analog_channel_ids |-> <<>>, analog_phases |-> <<>>,
     status_channel_ids |-> <<>>, status_phases |-> <<>>,
     time_values |-> <<>>, analog_values |-> <<>>, status_values |-> <<>>,
     total_samples |-> -1]

NoReader == DatReaderInit("none")

\* Cfg.read called on its own ends here
FinishCfgRead ==
    /\ pc = "cfg_read" /\ entry = "Cfg.read"
    /\ pc' = "done"
    /\ UNCHANGED <<earlier, cff, pair, entry, err, cfg, cfgIn, ct, dat, datIn, datTail, warns, nvar>>

\* _cfg_extract_channels_ids and _cfg_extract_phases
ExtractChannels ==
    /\ pc = "cfg_read" /\ entry \in {"Comtrade.read", "Comtrade.load"}
    /\ ct' = [ct EXCEPT
          !.analog_channel_ids = [i \in 1..Len(cfg.analog_channels) |-> cfg.analog_channels[i].name],
          !.status_channel_ids = [i \in 1..Len(cfg.status_channels) |-> cfg.status_channels[i].name],
          !.analog_phases = [i \in 1..Len(cfg.analog_channels) |-> cfg.analog_channels[i].ph],
          !.status_phases = [i \in 1..Len(cfg.status_channels) |-> cfg.status_channels[i].ph]]
    /\ pc' = "get_dat_reader"
    /\ UNCHANGED <<earlier, cff, pair, entry, err, cfg, cfgIn, dat, datIn, datTail, warns, nvar>>

\* a variant of ReaderClass that compares the format as written
ReaderClassAsWritten(ft) ==
    IF ft = TYPE_ASCII THEN "AsciiDatReader"
    ELSE IF ft = TYPE_BINARY THEN "BinaryDatReader"
    ELSE IF ft = TYPE_BINARY32 THEN "Binary32DatReader"
    ELSE IF ft = TYPE_FLOAT32 THEN "Float32DatReader"
    ELSE "none"

\* Comtrade._get_dat_reader: the reader class of the upper cased format
ReaderClass(ft) ==
    LET ft_upper == Upper(ft)
    IN  IF ft_upper = TYPE_ASCII THEN "AsciiDatReader"
        ELSE IF ft_upper = TYPE_BINARY THEN "BinaryDatReader"
        ELSE IF ft_upper = TYPE_BINARY32 THEN "Binary32DatReader"
        ELSE IF ft_upper = TYPE_FLOAT32 THEN "Float32DatReader"
        ELSE "none"

GetDatReader ==
    /\ pc = "get_dat_reader"
    /\ IF ReaderClass(cfg.ft) = "none"
       THEN dat' = dat /\ Raise("Exception: Not supported data file format")
       ELSE dat' = DatReaderInit(ReaderClass(cfg.ft)) /\ pc' = "preallocate" /\ err' = err
    /\ UNCHANGED <<earlier, cff, pair, entry, cfg, cfgIn, ct, datIn, datTail, warns, nvar>>

\* DatReader.read up to its call of parse
Preallocate ==
    /\ pc = "preallocate"
    /\ IF cfg.sample_rates = <<>>
       THEN dat' = dat /\ Raise("IndexError")
       ELSE dat' = _preallocate(dat, cfg) /\ pc' = "parse" /\ err' = err
    /\ UNCHANGED <<earlier, cff, pair, entry, cfg, cfgIn, ct, datIn, datTail, warns, nvar>>

(***************************************************************************)
(* The data stream.  Row r (1-based) is drawn when it is read, among a few *)
(* kinds that vary the sample number, the time stamp and the payload.      *)
(***************************************************************************)
\* the raw value of analog field i and the value of status field k of a row
RawAnalog(payload, r, i) == IF payload = 1 THEN 10 * r + i ELSE 0 - (r + 3 * i)
RawStatus(payload, k) == IF payload = 1 THEN k % 2 ELSE (k + 1) % 2
\* a 16 bit status group: 0b0000000000000011 or 0b1010101010101010
RawGroup(payload) == IF payload = 1 THEN 3 ELSE 43690
\* a time stamp that is present
RawStamp(r) == 500 * r

\* the kinds of rows: sample number, time stamp present, payload
RowKinds(r) ==
    {[n |-> r, stamped |-> TRUE, payload |-> 1],
     [n |-> r, stamped |-> FALSE, payload |-> 2],
     [n |-> 1, stamped |-> TRUE, payload |-> 2],
     [n |-> 1, stamped |-> FALSE, payload |-> 1],
     [n |-> r + 1, stamped |-> FALSE, payload |-> 1]}

\* an ASCII row of a kind, with extra cells between its analog and status cells
AsciiLine(k, r, c, extra) ==
    <<Dec(k.n), IF k.stamped THEN Dec(RawStamp(r)) ELSE CELL_MISSING>>
    \o [i \in 1..c.analog_count |-> DecInt(RawAnalog(k.payload, r, i))]
    \o extra
    \o [i \in 1..c.status_count |-> Dec(RawStatus(k.payload, i))]

\* the rows an ASCII stream may hold at position r: well formed rows, a row
\* with one cell too many, a row cut short after its time stamp, a blank line
AsciiLines(r, c) ==
    {AsciiLine(k, r, c, <<>>) : k \in RowKinds(r)}
    \cup {AsciiLine([n |-> r, stamped |-> TRUE, payload |-> 1], r, c, <<CELL_9>>),
          <<Dec(r), Dec(RawStamp(r))>>,
          BlankLine}

\* the tuple that iter_unpack yields for a record of a kind
BinaryValues(k, r, fmt) ==
    <<k.n, IF k.stamped THEN U32(RawStamp(r)) ELSE TIMESTAMP_MISSING>>
    \o [i \in 1..fmt.acount |-> RawAnalog(k.payload, r, i)]
    \o [g \in 1..fmt.dcount |-> RawGroup(k.payload)]
BinaryRows(r, fmt) == {BinaryValues(k, r, fmt) : k \in RowKinds(r)}

\* bytes that may follow the last complete record of a binary stream
TailChoices == {0, 3}

IsBinary(d) == d.class \in {"BinaryDatReader", "Binary32DatReader", "Float32DatReader"}
ReaderFormat(d, c) == get_reader_format(c.analog_count, StatusBytes(c.status_count))

\* what the next read of the data stream may return
AsciiInput ==
    IF pc = "rows" /\ ~IsBinary(dat) THEN AsciiLines(Len(datIn) + 1, cfg) ELSE {}
BinaryInput ==
    IF pc = "rows" /\ IsBinary(dat)
    THEN BinaryRows(Len(datIn) + 1, ReaderFormat(dat, cfg)) ELSE {}

\* parse up to its row loop.  AsciiDatReader: nothing can fail.
\* BinaryDatReader: the struct format is built (KeyError) and iter_unpack
\* refuses a buffer whose size is no multiple of the record size
BeginParse ==
    /\ pc = "parse"
    /\ IF ~IsBinary(dat)
       THEN datTail' = 0 /\ pc' = "rows" /\ err' = err
       ELSE IF ~ReaderFormat(dat, cfg).ok
       THEN datTail' = 0 /\ Raise("KeyError")
       ELSE \E tail \in TailChoices :
              /\ datTail' = tail
              /\ IF tail % StructSize(dat.class, ReaderFormat(dat, cfg)) # 0
                 THEN Raise("struct.error")
                 ELSE pc' = "rows" /\ err' = err
    /\ UNCHANGED <<earlier, cff, pair, entry, cfg, cfgIn, ct, dat, datIn, warns, nvar>>

\* one pass of the loop of AsciiDatReader.parse
ParseAsciiLine(line) ==
    /\ pc = "rows" /\ ~IsBinary(dat)
    /\ Len(datIn) < dat.total_samples + MaxExtraRows
    /\ datIn' = Append(datIn, line)
    /\ LET line_number == Len(datIn) + 1
           r == AsciiRow(cfg, line)
       IN  IF line_number > dat.total_samples
           THEN dat' = dat /\ pc' = "extract_data" /\ err' = err
           ELSE IF r.ok
           THEN /\ dat' = StoreRow(dat, line_number, r.time, r.avalues, r.svalues)
                /\ pc' = "rows" /\ err' = err
           ELSE dat' = dat /\ Raise(r.err)
    /\ UNCHANGED <<earlier, cff, pair, entry, cfg, cfgIn, ct, datTail, warns, nvar>>

\* one pass of the loop of BinaryDatReader.parse: the time is resolved
\* before the row count is tested
ParseBinaryRow(values) ==
    /\ pc = "rows" /\ IsBinary(dat)
    /\ Len(datIn) < dat.total_samples + MaxExtraRows
    /\ datIn' = Append(datIn, values)
    /\ LET irow == Len(datIn)
           ts == DatReader_get_time(cfg, values[1], values[2], cfg.time_base,
                                    cfg.time_multiplier)
       IN  IF ~ts.ok
           THEN dat' = dat /\ Raise("Exception: Missing timestamp and no sample rate provided.")
           ELSE IF irow >= dat.total_samples
           THEN dat' = dat /\ pc' = "extract_data" /\ err' = err
           ELSE /\ dat' = StoreRow(dat, irow + 1, ts.t, BinaryAnalog(values, cfg),
                                   BinaryStatus(values, cfg.analog_count, cfg.status_count,
                                       [k \in 1..Len(dat.status) |-> dat.status[k][irow + 1]]))
                /\ pc' = "rows" /\ err' = err
    /\ UNCHANGED <<earlier, cff, pair, entry, cfg, cfgIn, ct, datTail, warns, nvar>>

\* the data stream ends: the loop is left
EndOfData ==
    /\ pc = "rows"
    /\ pc' = "extract_data"
    /\ UNCHANGED <<earlier, cff, pair, entry, err, cfg, cfgIn, ct, dat, datIn, datTail, warns, nvar>>

\* Comtrade._dat_extract_data
DatExtractData ==
    /\ pc = "extract_data"
    /\ ct' = [ct EXCEPT !.time_values = dat.time, !.analog_values = dat.analog,
                        !.status_values = dat.status,
                        !.total_samples = dat.total_samples]
    /\ pc' = "done"
    /\ UNCHANGED <<earlier, cff, pair, entry, err, cfg, cfgIn, dat, datIn, datTail, warns, nvar>>

(***************************************************************************)
(* Comtrade._load_cff: a combined file is read line by line, its lines put *)
(* into the section of the last header seen, and the CFG and DAT sections  *)
(* are handed to Comtrade.read as texts joined with "\n"                   *)
(***************************************************************************)
\* no combined file is being loaded; no pair has been loaded
NoCff ==
    [file |-> <<>>, line_number |-> 0, last_match |-> FALSE, stopped |-> FALSE,
     ftype |-> None, fformat |-> None, fbytes |-> 0,
     cfg_lines |-> <<>>, dat_lines |-> <<>>, hdr_lines |-> <<>>, inf_lines |-> <<>>,
     reading |-> FALSE, bytes |-> <<>>, dat_bytes |-> <<>>, encoding |-> ""]
NoPair == [loaded |-> FALSE, cfg |-> None, ct |-> None]
\* no read has been made before this one
NoEarlier == [phase |-> "first", cfg |-> None, lines |-> <<>>]
\* a text held where None may be held
Str(s) == [str |-> s]

\* CFF_HEADER_REXP matched on line.strip().upper(): the prefix, letters,
\* then optionally blanks and a format of letters and digits, then
\* optionally a colon between blanks and a byte count, then " ---" at the end
HEADER_PREFIX == <<"-", "-", "-", " ", "F", "I", "L", "E", " ", "T", "Y", "P", "E", ":", " ">>
HEADER_END == <<" ", "-", "-", "-">>
UpperLetters ==
    {"A", "B", "C", "D", "E", "F", "G", "H", "I", "J", "K", "L", "M", "N", "O",
     "P", "Q", "R", "S", "T", "U", "V", "W", "X", "Y", "Z"}
RECURSIVE LetterRun(_, _)
LetterRun(s, i) == IF At(s, i) \in UpperLetters THEN 1 + LetterRun(s, i + 1) ELSE 0
RECURSIVE AlnumRun(_, _)
AlnumRun(s, i) ==
    IF At(s, i) \in UpperLetters \/ IsDigit(At(s, i)) THEN 1 + AlnumRun(s, i + 1) ELSE 0
RECURSIVE BlankRun(_, _)
BlankRun(s, i) == IF At(s, i) = " " THEN 1 + BlankRun(s, i + 1) ELSE 0
RECURSIVE NumberRun(_, _)
NumberRun(s, i) == IF IsDigit(At(s, i)) THEN 1 + NumberRun(s, i + 1) ELSE 0
EndsAt(s, i) == SubSeq(s, i, Len(s)) = HEADER_END

\* header_re.match(line.strip().upper()): [match, ftype, fformat, fbytes]
CffHeader(line) ==
    LET text == Upper(Strip(LineText(Cells(line))))
        p1 == Len(HEADER_PREFIX) + 1
        k1 == LetterRun(text, p1)
        p2 == p1 + k1
        s2 == BlankRun(text, p2)
        k2 == AlnumRun(text, p2 + s2)
        p3 == p2 + s2 + k2
        s3 == BlankRun(text, p3)
        s4 == BlankRun(text, p3 + s3 + 1)
        k3 == NumberRun(text, p3 + s3 + 1 + s4)
        p4 == p3 + s3 + 1 + s4 + k3
        no == [match |-> FALSE, ftype |-> None, fformat |-> None, fbytes |-> 0]
        yes == [match |-> TRUE, ftype |-> Str(SubSeq(text, p1, p2 - 1)),
                fformat |-> None, fbytes |-> 0]
    IN  IF Len(text) < Len(HEADER_PREFIX)
           \/ SubSeq(text, 1, Len(HEADER_PREFIX)) # HEADER_PREFIX \/ k1 = 0
        THEN no
        ELSE IF s2 >= 1 /\ k2 >= 1 /\ At(text, p3 + s3) = ":" /\ k3 >= 1
                /\ EndsAt(text, p4)
        THEN [yes EXCEPT !.fformat = Str(SubSeq(text, p2 + s2, p3 - 1)),
                         !.fbytes = DigitsVal(SubSeq(text, p4 - k3, p4 - 1))]
        ELSE IF s2 >= 1 /\ k2 >= 1 /\ EndsAt(text, p3)
        THEN [yes EXCEPT !.fformat = Str(SubSeq(text, p2 + s2, p3 - 1))]
        ELSE IF EndsAt(text, p2) THEN yes
        ELSE no

\* line.strip() on the cells of a line
StripLine(line) ==
    IF Len(line) <= 1 THEN <<Strip(LineText(Cells(line)))>>
    ELSE <<LStrip(line[1])>> \o SubSeq(line, 2, Len(line) - 1)
         \o <<RStrip(line[Len(line)])>>

\* the section names
FTYPE_CFG == <<"C", "F", "G">>
FTYPE_DAT == <<"D", "A", "T">>
FTYPE_HDR == <<"H", "D", "R">>
FTYPE_INF == <<"I", "N", "F">>

\* the header lines of a combined file, in two spellings
CffHeaderLines(style) ==
    IF style = 1
    THEN [cfg |-> <<<<"-", "-", "-", " ", "f", "i", "l", "e", " ", "t", "y", "p", "e", ":", " ", "C", "F", "G", " ", "-", "-", "-">>>>, inf |-> <<<<"-", "-", "-", " ", "f", "i", "l", "e", " ", "t", "y", "p", "e", ":", " ", "I", "N", "F", " ", "-", "-", "-">>>>,
          hdr |-> <<<<"-", "-", "-", " ", "f", "i", "l", "e", " ", "t", "y", "p", "e", ":", " ", "H", "D", "R", " ", "-", "-", "-">>>>, dat |-> <<<<"-", "-", "-", " ", "f", "i", "l", "e", " ", "t", "y", "p", "e", ":", " ", "D", "A", "T", " ", "A", "S", "C", "I", "I", " ", "-", "-", "-">>>>]
    ELSE [cfg |-> <<<<" ", "-", "-", "-", " ", "F", "i", "l", "e", " ", "T", "y", "p", "e", ":", " ", "c", "f", "g", " ", "-", "-", "-">>>>, inf |-> <<<<"-", "-", "-", " ", "F", "i", "l", "e", " ", "T", "y", "p", "e", ":", " ", "i", "n", "f", " ", "-", "-", "-">>>>,
          hdr |-> <<<<"-", "-", "-", " ", "F", "i", "l", "e", " ", "T", "y", "p", "e", ":", " ", "h", "d", "r", " ", "-", "-", "-">>>>, dat |-> <<<<"-", "-", "-", " ", "F", "i", "l", "e", " ", "T", "y", "p", "e", ":", " ", "d", "a", "t", " ", " ", "a", "s", "c", "i", "i", ":", " ", "0", " ", "-", "-", "-", " ">>>>]
HeaderStyles == {1, 2}
\* the combined file that holds the lines of a pair: its sections in the
\* order CFG, INF, HDR, DAT, or with the DAT section before INF and HDR
SectionOrders == {1, 2}
CffFile(style, order, cfg_lines, dat_lines) ==
    IF order = 1
    THEN <<CffHeaderLines(style).cfg>> \o cfg_lines
         \o <<CffHeaderLines(style).inf, CffHeaderLines(style).hdr,
              CffHeaderLines(style).dat>>
         \o dat_lines
    ELSE <<CffHeaderLines(style).cfg>> \o cfg_lines
         \o <<CffHeaderLines(style).dat>> \o dat_lines
         \o <<CffHeaderLines(style).inf, CffHeaderLines(style).hdr>>

\* a second Comtrade object is made and load() is called on the combined
\* file that holds the lines read from the pair: _load_cff up to its loop
LoadCff(style, order) ==
    /\ entry = "Comtrade.read" /\ pc = "done" /\ ~pair.loaded
    /\ pair' = [loaded |-> TRUE, cfg |-> cfg, ct |-> ct]
    /\ cff' = [NoCff EXCEPT !.file = CffFile(style, order, cfgIn, datIn)]
    /\ cfg' = CfgInit(FALSE)
    /\ ct' = ComtradeInit
    /\ dat' = NoReader
    /\ cfgIn' = <<>> /\ datIn' = <<>> /\ datTail' = 0
    /\ warns' = {}
    /\ pc' = "cff_scan"
    /\ UNCHANGED <<entry, err, nvar, earlier>>

\* one pass of the while loop of _load_cff
ScanCffLine ==
    /\ pc = "cff_scan"
    /\ cff.line_number < Len(cff.file) /\ ~cff.stopped
    /\ LET line == cff.file[cff.line_number + 1]
           mobj == CffHeader(line)
           c1 == [cff EXCEPT !.line_number = @ + 1]
       IN  cff' =
             IF mobj.match
             THEN [c1 EXCEPT !.last_match = TRUE, !.ftype = mobj.ftype,
                             !.fformat = mobj.fformat, !.fbytes = mobj.fbytes]
             ELSE IF cff.last_match /\ cff.ftype = Str(FTYPE_CFG)
             THEN [c1 EXCEPT !.cfg_lines = Append(@, StripLine(line))]
             ELSE IF cff.last_match /\ cff.ftype = Str(FTYPE_DAT)
             THEN IF cff.fformat = Str(TYPE_ASCII)
                  THEN [c1 EXCEPT !.dat_lines = Append(@, StripLine(line))]
                  ELSE [c1 EXCEPT !.stopped = TRUE]
             ELSE IF cff.last_match /\ cff.ftype = Str(FTYPE_HDR)
             THEN [c1 EXCEPT !.hdr_lines = Append(@, StripLine(line))]
             ELSE IF cff.last_match /\ cff.ftype = Str(FTYPE_INF)
             THEN [c1 EXCEPT !.inf_lines = Append(@, StripLine(line))]
             ELSE c1
    /\ UNCHANGED <<entry, pc, err, cfg, cfgIn, ct, dat, datIn, datTail, warns,
                   nvar, pair, earlier>>

\* the loop is over: self.read is called on the joined sections when the
\* format of the last header is ASCII, and otherwise on the last fbytes
\* bytes of the file (the headers here that give no format give no byte
\* count: no bytes)
CffCallRead ==
    /\ pc = "cff_scan"
    /\ cff.line_number = Len(cff.file) \/ cff.stopped
    /\ cff' = IF cff.fformat = Str(TYPE_ASCII) THEN [cff EXCEPT !.reading = TRUE]
              ELSE [cff EXCEPT !.reading = TRUE, !.dat_lines = <<>>]
    /\ pc' = "line1"
    /\ UNCHANGED <<entry, err, cfg, cfgIn, ct, dat, datIn, datTail, warns,
                   nvar, pair, earlier>>

\* io.StringIO("\n".join(cfg_lines)).readline(): a last line that is blank
\* is no line of the joined text
CffCfgLine ==
    LET k == Len(cfgIn) + 1
    IN  IF k > Len(cff.cfg_lines) THEN EOF
        ELSE IF k = Len(cff.cfg_lines) /\ cff.cfg_lines[k] = BlankLine THEN EOF
        ELSE cff.cfg_lines[k]
\* "\n".join(dat_lines).splitlines()
CffRows ==
    IF cff.dat_lines # <<>> /\ cff.dat_lines[Len(cff.dat_lines)] = BlankLine
    THEN ButLast(cff.dat_lines) ELSE cff.dat_lines

\* the lines and rows of a pair: those of Comtrade.read with the ASCII
\* format, written in upper or lower case and between blanks
PAIR_FT ==
    {<<<<"A", "S", "C", "I", "I">>>>,
     <<<<" ", "a", "s", "c", "i", "i", " ">>>>}
\* a row written with blanks around it
Padded(line) ==
    <<<<" ">> \o line[1]>> \o SubSeq(line, 2, Len(line) - 1)
    \o <<line[Len(line)] \o <<" ">>>>
PairRows(r, c) ==
    {AsciiLine([n |-> r, stamped |-> TRUE, payload |-> 1], r, c, <<>>)}
    \cup {Padded(AsciiLine([n |-> r, stamped |-> TRUE, payload |-> 2], r, c, <<>>)),
          BlankLine}

PairLines(p, c) ==
    CASE p = "line1" -> {LINE_REV1999, LINE_REV1991}
      [] p = "line2" -> {LINE_COUNTS, <<<<"1">>, <<"1", "A">>, <<"0", "D">>>>}
      [] p = "analog" -> IF Filled(c.analog_channels) = 0 THEN {RefAnalogLine(1)}
                         ELSE {LINE_ANALOG_B}
      [] p = "status" -> IF Filled(c.status_channels) = 0 THEN {RefStatusLine(1)}
                         ELSE {LINE_STATUS_B}
      [] p = "frequency" -> {LINE_60}
      [] p = "nrates" -> {LINE_1}
      [] p = "rate" -> {<<CELL_1000, Dec(e)>> : e \in 1..MaxSamples}
      [] p = "start" -> {LINE_START}
      [] p = "trigger" -> {LINE_TRIGGER}
      [] p = "ft" -> PAIR_FT
      [] p = "timemult" -> {BlankLine, LINE_2}

\* what the next readline() returns: a line of the pair's configuration
\* file, or the next line of the CFG section
CffLines(p) ==
    IF pc # p THEN {}
    ELSE IF cff.reading THEN {CffCfgLine}
    ELSE PairLines(p, cfg)
\* the next row: of the pair's data file, or of the DAT section
CffRowInput ==
    IF pc # "rows" THEN {}
    ELSE IF cff.reading
    THEN (IF Len(datIn) < Len(CffRows) THEN {CffRows[Len(datIn) + 1]} ELSE {})
    ELSE PairRows(Len(datIn) + 1, cfg)
\* the data stream has no further row
CffEndOfData == cff.reading => Len(datIn) = Len(CffRows)

(***************************************************************************)
(* Specifications                                                          *)
(***************************************************************************)
InitWith(e) ==
    /\ entry = e
    /\ pc = "line1"
    /\ err = ""
    /\ cfg \in {CfgInit(w) : w \in IF e = "Cfg.read" THEN BOOLEAN ELSE {FALSE}}
    /\ cfgIn = <<>>
    /\ ct = ComtradeInit
    /\ dat = NoReader
    /\ datIn = <<>>
    /\ datTail = 0
    /\ warns = {}
    /\ nvar = 0
    /\ cff = NoCff
    /\ pair = NoPair
    /\ earlier = NoEarlier

Init == \E e \in {"Cfg.read", "Comtrade.read"} : InitWith(e)
InitCfg == InitWith("Cfg.read")

\* Cfg._read_io
ReadIo ==
    \/ \E line \in Lines("line1") : ReadFirstLine(line)
    \/ \E line \in Lines("line2") : ReadCountsLine(line)
    \/ \E line \in Lines("analog") : ReadAnalogLine(line)
    \/ \E line \in Lines("status") : ReadStatusLine(line)
    \/ \E line \in Lines("frequency") : ReadFrequencyLine(line)
    \/ \E line \in Lines("nrates") : ReadNratesLine(line)
    \/ \E line \in Lines("rate") : ReadSampleRateLine(line)
    \/ \E line \in Lines("start") : ReadStartTimestamp(line)
    \/ \E line \in Lines("trigger") : ReadTriggerTimestamp(line)
    \/ \E line \in Lines("ft") : ReadFileType(line)
    \/ \E line \in Lines("timemult") : ReadTimeMultiplier(line)
    \/ \E line \in Lines("time_code") : ReadTimeCodes(line)
    \/ \E line \in Lines("tmq_code") : ReadTmqCodes(line)

NextCfg == ReadIo \/ FinishCfgRead

Next ==
    \/ ReadIo
    \/ FinishCfgRead
    \/ ExtractChannels
    \/ GetDatReader
    \/ Preallocate
    \/ BeginParse
    \/ \E line \in AsciiInput : ParseAsciiLine(line)
    \/ \E values \in BinaryInput : ParseBinaryRow(values)
    \/ EndOfData
    \/ DatExtractData

Spec == Init /\ [][Next]_vars

(***************************************************************************)
(* The status loop of BinaryDatReader.parse on its own: the reader stands  *)
(* at its row loop, after a configuration of one analog channel, schannel  *)
(* status channels and a single sample; the one row holds status groups    *)
(* drawn one by one.                                                       *)
(***************************************************************************)
MaxStatus == 33
GroupValues == {3, 43690, 32768, 65535}
StatusCfg(schannel) ==
    [CfgInit(FALSE) EXCEPT
        !.rev_year = REV_1999, !.station_name = CELL_ST, !.rec_dev_id = CELL_ST,
        !.channels_count = schannel + 1,
        !.analog_count = 1, !.status_count = schannel,
        !.analog_channels = <<AnalogChannel(1, 2, 1, 0, -32768, 32767, CELL_IA,
                                            CELL_A, <<>>, <<>>, 1, 1, CELL_S)>>,
        !.status_channels = [i \in 1..schannel |->
                                StatusChannel(i, CELL_ST, <<>>, <<>>, 0)],
        !.frequency = 60, !.nrates = 1, !.sample_rates = <<<<1000, 1>>>>,
        !.ft = TYPE_BINARY]

\* the unpacked rows of such a stream: sample 1, its stamp, one analog
\* value and the groups
RECURSIVE GroupTuples(_)
GroupTuples(count) ==
    IF count = 0 THEN {<<>>}
    ELSE {Append(t, g) : t \in GroupTuples(count - 1), g \in GroupValues}
StatusInput ==
    IF pc = "rows" /\ IsBinary(dat) /\ datIn = <<>>
    THEN {<<1, U32(0), 11>> \o t : t \in GroupTuples(GroupsOf16Bits(cfg.status_count))}
    ELSE {}

InitStatus ==
    \E schannel \in 1..MaxStatus :
        /\ entry = "Comtrade.read"
        /\ pc = "rows"
        /\ err = ""
        /\ cfg = StatusCfg(schannel)
        /\ cfgIn = <<>>
        /\ ct = ComtradeInit
        /\ dat = _preallocate(DatReaderInit("BinaryDatReader"), StatusCfg(schannel))
        /\ datIn = <<>>
        /\ datTail = 0
        /\ warns = {}
        /\ nvar = 0
        /\ cff = NoCff
        /\ pair = NoPair
        /\ earlier = NoEarlier

NextStatus ==
    \/ \E values \in StatusInput : ParseBinaryRow(values)
    \/ EndOfData
    \/ DatExtractData

SpecStatus == InitStatus /\ [][NextStatus]_vars
SpecCfg == InitCfg /\ [][NextCfg]_vars

(***************************************************************************)
(* Cfg.read on the reference stream, of revision 1999 or 1991, with the    *)
(* start time stamp drawn from the fractions re_time accepts and from      *)
(* dates with numbers of 0                                                 *)
(***************************************************************************)
MaxFraction == 12
FractionDigits == {"0", "9"}
CELL_DATE == <<"0", "1", "/", "0", "1", "/", "2", "0", "0", "0">>
TIME_PREFIX == <<"1", "0", ":", "3", "0", ":", "0", "0", ".">>
FRACTION_NANO == <<"1", "2", "3", "4", "5", "6", "7", "8", "9">>
FractionTexts ==
    UNION {[1..n -> FractionDigits] : n \in 1..MaxFraction} \cup {FRACTION_NANO}
FractionLines ==
    IF pc # "start" THEN {}
    ELSE {<<CELL_DATE, TIME_PREFIX \o f>> : f \in FractionTexts}

\* dates whose numbers may be 0, with a year of four or of two digits, and
\* lines with no date or no cell at all; line 1 with the 1991 ordering
DateNumbers == {0, 1, 2, 29}
YearTexts == {<<"0", "0", "0", "0">>, <<"0", "0">>, <<"2", "0", "0", "0">>}
CELL_TIME == TIME_PREFIX \o <<"5">>
TwoDigits(n) == <<DigitChars[(n \div 10) + 1], DigitChars[(n % 10) + 1]>>
DateText(first, second, year) ==
    TwoDigits(first) \o <<"/">> \o TwoDigits(second) \o <<"/">> \o year
DateLines ==
    IF pc # "start" THEN {}
    ELSE {<<DateText(a, b, y), CELL_TIME>> :
              a \in DateNumbers, b \in DateNumbers, y \in YearTexts}
         \cup {BlankLine, << <<>>, <<>> >>, << <<>>, CELL_TIME>>}
RevisionLines == IF pc # "line1" THEN {} ELSE {LINE_REV1999, LINE_REV1991}

InitTime ==
    /\ entry = "Cfg.read"
    /\ pc = "line1"
    /\ err = ""
    /\ cfg \in {CfgInit(w) : w \in BOOLEAN}
    /\ cfgIn = <<>>
    /\ ct = ComtradeInit
    /\ dat = NoReader
    /\ datIn = <<>>
    /\ datTail = 0
    /\ warns = {}
    /\ nvar = MaxVar
    /\ cff = NoCff
    /\ pair = NoPair
    /\ earlier = NoEarlier

NextTime ==
    \/ \E line \in RevisionLines : ReadFirstLine(line)
    \/ \E line \in Lines("line2") : ReadCountsLine(line)
    \/ \E line \in Lines("analog") : ReadAnalogLine(line)
    \/ \E line \in Lines("status") : ReadStatusLine(line)
    \/ \E line \in Lines("frequency") : ReadFrequencyLine(line)
    \/ \E line \in Lines("nrates") : ReadNratesLine(line)
    \/ \E line \in Lines("rate") : ReadSampleRateLine(line)
    \/ \E line \in FractionLines \cup DateLines : ReadStartTimestamp(line)
    \/ \E line \in Lines("trigger") : ReadTriggerTimestamp(line)
    \/ \E line \in Lines("ft") : ReadFileType(line)
    \/ \E line \in Lines("timemult") : ReadTimeMultiplier(line)
    \/ FinishCfgRead

SpecTime == InitTime /\ [][NextTime]_vars

(***************************************************************************)
(* A pair is loaded, then a combined file that holds the lines read from   *)
(* the pair is loaded into a second object                                 *)
(***************************************************************************)
InitCff == InitWith("Comtrade.read")

NextCff ==
    \/ \E line \in CffLines("line1") : ReadFirstLine(line)
    \/ \E line \in CffLines("line2") : ReadCountsLine(line)
    \/ \E line \in CffLines("analog") : ReadAnalogLine(line)
    \/ \E line \in CffLines("status") : ReadStatusLine(line)
    \/ \E line \in CffLines("frequency") : ReadFrequencyLine(line)
    \/ \E line \in CffLines("nrates") : ReadNratesLine(line)
    \/ \E line \in CffLines("rate") : ReadSampleRateLine(line)
    \/ \E line \in CffLines("start") : ReadStartTimestamp(line)
    \/ \E line \in CffLines("trigger") : ReadTriggerTimestamp(line)
    \/ \E line \in CffLines("ft") : ReadFileType(line)
    \/ \E line \in CffLines("timemult") : ReadTimeMultiplier(line)
    \/ ExtractChannels
    \/ GetDatReader
    \/ Preallocate
    \/ BeginParse
    \/ \E line \in CffRowInput : ParseAsciiLine(line)
    \/ CffEndOfData /\ EndOfData
    \/ DatExtractData
    \/ \E style \in HeaderStyles, order \in SectionOrders : LoadCff(style, order)
    \/ ScanCffLine
    \/ CffCallRead

SpecCff == InitCff /\ [][NextCff]_vars

(***************************************************************************)
(* Comtrade.load of a CFG/DAT pair of files, each of which may be missing  *)
(***************************************************************************)
EXT_DAT == <<"d", "a", "t">>
\* cfg_file[-3:] and cfg_file[:-3]
PathExt(path) == SubSeq(path, Len(path) - 2, Len(path))
PathBase(path) == SubSeq(path, 1, Len(path) - 3)
\* the paths given to load
LoadPaths ==
    {<<"e", ".", "c", "f", "g">>, <<"e", ".", "C", "F", "G">>,
     <<"e", ".", "t", "x", "t">>}

\* Comtrade.load up to the first readline() of Cfg.load: the extension is
\* tested, Cfg.load keeps the path and asks os.path.isfile
ComtradeLoad(cfg_file, isfile) ==
    /\ pc = "load" /\ entry = "Comtrade.load"
    /\ IF Upper(PathExt(cfg_file)) # <<"C", "F", "G">>
       THEN cfg' = cfg /\ Raise("Exception: Expected CFG file path")
       ELSE /\ cfg' = [cfg EXCEPT !.filepath = cfg_file]
            /\ IF isfile THEN pc' = "line1" /\ err' = err
               ELSE Raise("FileNotFoundError")
    /\ UNCHANGED <<earlier, cff, pair, entry, cfgIn, ct, dat, datIn, datTail, warns, nvar>>

\* DatReader.load up to parse: the path of the data file is the path of
\* the configuration file with the extension dat
DatLoad(isfile) ==
    /\ pc = "preallocate" /\ entry = "Comtrade.load"
    /\ LET d == [dat EXCEPT !.file_path = PathBase(cfg.filepath) \o EXT_DAT]
       IN  IF ~isfile
           THEN dat' = d /\ Raise("FileNotFoundError")
           ELSE IF cfg.sample_rates = <<>>
           THEN dat' = d /\ Raise("IndexError")
           ELSE dat' = _preallocate(d, cfg) /\ pc' = "parse" /\ err' = err
    /\ UNCHANGED <<earlier, cff, pair, entry, cfg, cfgIn, ct, datIn, datTail, warns, nvar>>

\* the lines of the configuration file and the rows of the data file
LoadLines(p) == IF pc # p THEN {} ELSE PairLines(p, cfg)
LoadRows == IF pc # "rows" THEN {} ELSE PairRows(Len(datIn) + 1, cfg)

InitLoad ==
    /\ entry = "Comtrade.load"
    /\ pc = "load"
    /\ err = ""
    /\ cfg = CfgInit(FALSE)
    /\ cfgIn = <<>>
    /\ ct = ComtradeInit
    /\ dat = NoReader
    /\ datIn = <<>>
    /\ datTail = 0
    /\ warns = {}
    /\ nvar = 0
    /\ cff = NoCff
    /\ pair = NoPair
    /\ earlier = NoEarlier

NextLoad ==
    \/ \E cfg_file \in LoadPaths, isfile \in BOOLEAN : ComtradeLoad(cfg_file, isfile)
    \/ \E line \in LoadLines("line1") : ReadFirstLine(line)
    \/ \E line \in LoadLines("line2") : ReadCountsLine(line)
    \/ \E line \in LoadLines("analog") : ReadAnalogLine(line)
    \/ \E line \in LoadLines("status") : ReadStatusLine(line)
    \/ \E line \in LoadLines("frequency") : ReadFrequencyLine(line)
    \/ \E line \in LoadLines("nrates") : ReadNratesLine(line)
    \/ \E line \in LoadLines("rate") : ReadSampleRateLine(line)
    \/ \E line \in LoadLines("start") : ReadStartTimestamp(line)
    \/ \E line \in LoadLines("trigger") : ReadTriggerTimestamp(line)
    \/ \E line \in LoadLines("ft") : ReadFileType(line)
    \/ \E line \in LoadLines("timemult") : ReadTimeMultiplier(line)
    \/ ExtractChannels
    \/ GetDatReader
    \/ \E isfile \in BOOLEAN : DatLoad(isfile)
    \/ BeginParse
    \/ \E line \in LoadRows : ParseAsciiLine(line)
    \/ EndOfData
    \/ DatExtractData

SpecLoad == InitLoad /\ [][NextLoad]_vars

(***************************************************************************)
(* Comtrade.load of a combined file whose DAT section is binary: the file  *)
(* as bytes, the text pass over it and the bytes handed to the decoder     *)
(***************************************************************************)
\* the characters of codes 32 to 126 (that of code 96 by its name)
PrintableAscii ==
    <<" ", "!", "\"", "#", "$", "%", "&", "'", "(", ")", "*", "+", ",", "-", ".", "/",
      "0", "1", "2", "3", "4", "5", "6", "7", "8", "9", ":", ";", "<", "=", ">", "?",
      "@", "A", "B", "C", "D", "E", "F", "G", "H", "I", "J", "K", "L", "M", "N", "O",
      "P", "Q", "R", "S", "T", "U", "V", "W", "X", "Y", "Z", "[", "\\", "]", "^", "_",
      "grave", "a", "b", "c", "d", "e", "f", "g", "h", "i", "j", "k", "l", "m", "n", "o",
      "p", "q", "r", "s", "t", "u", "v", "w", "x", "y", "z", "{", "|", "}", "~">>
\* ord() of a character of a text line, and the bytes of a line with its
\* line feed
Ord(ch) == 31 + CHOOSE k \in 1..Len(PrintableAscii) : PrintableAscii[k] = ch
LineFeed == 10
LineBytes(line) ==
    LET text == LineText(Cells(line))
    IN  [i \in 1..Len(text) |-> Ord(text[i])] \o <<LineFeed>>
RECURSIVE TextBytes(_)
TextBytes(lines) ==
    IF lines = <<>> THEN <<>>
    ELSE LineBytes(lines[1]) \o TextBytes(Tail(lines))

\* a byte sequence is well-formed UTF-8 (the decoder is strict): every
\* byte is an ASCII byte, or a lead byte followed by its continuation
\* bytes, or a continuation byte of the lead byte before it
IsCont(x, lo, hi) == x >= lo /\ x <= hi
LeadLength(x) ==
    IF x < 128 THEN 1
    ELSE IF x >= 194 /\ x <= 223 THEN 2
    ELSE IF x >= 224 /\ x <= 239 THEN 3
    ELSE IF x >= 240 /\ x <= 244 THEN 4
    ELSE 0
LeadFollowed(b, i) ==
    LET n == LeadLength(b[i])
    IN  /\ i + n - 1 <= Len(b)
        /\ n >= 2 =>
             IsCont(b[i + 1],
                    IF b[i] = 224 THEN 160 ELSE IF b[i] = 240 THEN 144 ELSE 128,
                    IF b[i] = 237 THEN 159 ELSE IF b[i] = 244 THEN 143 ELSE 191)
        /\ \A j \in (i + 2)..(i + n - 1) : IsCont(b[j], 128, 191)
Utf8Valid(b) ==
    \A i \in 1..Len(b) :
        IF IsCont(b[i], 128, 191)
        THEN \E k \in 1..3 :
                /\ i - k >= 1 /\ LeadLength(b[i - k]) > k
                /\ \A j \in (i - k + 1)..(i - 1) : IsCont(b[j], 128, 191)
        ELSE LeadLength(b[i]) >= 1 /\ LeadFollowed(b, i)
\* the encoding that open() takes when it is given none: that of the locale
Locales == {"utf-8", "latin-1"}
\* bytes.decode(encoding) raises no UnicodeDecodeError
Decodable(encoding, b) == encoding = "latin-1" \/ Utf8Valid(b)
\* _file_is_utf8: reading the file in the encoding of the locale raises
_file_is_utf8(locale, b) == ~Decodable(locale, b)
\* the character a byte is read as, where it matters to the header pattern
\* and to strip(): white space, a printable character, or another one
Chr(b) ==
    IF b \in {9, 11, 12, 13, 28, 29, 30, 31} THEN " "
    ELSE IF b >= 32 /\ b <= 126 THEN PrintableAscii[b - 31]
    ELSE "other"
\* the lines that readline() makes of bytes read as text
RECURSIVE BytesAsLines(_, _)
BytesAsLines(b, line) ==
    IF b = <<>> THEN (IF line = <<>> THEN <<>> ELSE <<<<line>>>>)
    ELSE IF b[1] = LineFeed THEN <<<<line>>>> \o BytesAsLines(Tail(b), <<>>)
    ELSE BytesAsLines(Tail(b), Append(line, Chr(b[1])))

\* struct.pack("<I", n), ("<I", stamp), ("<h", y) for the numbers used here
Le16(x) == <<x % 256, x \div 256>>
PackRecord(n, stamp, y) ==
    Le16(n) \o <<0, 0>> \o Le16(stamp) \o <<0, 0>>
    \o Le16(IF y < 0 THEN y + 65536 ELSE y)
\* the records a binary DAT section may hold at place r
BinStamps == {0, 1000}
BinValues == {11, 10, -2, -22077}
BinRecords(r) == {PackRecord(r, stamp, y) : stamp \in BinStamps, y \in BinValues}
BinData == {r1 \o r2 : r1 \in BinRecords(1), r2 \in BinRecords(2)}
\* the configuration of the CFG section
BinCfgLines ==
    <<LINE_REV1999, <<<<"1">>, <<"1", "A">>, <<"0", "D">>>>, RefAnalogLine(1),
      LINE_60, LINE_1, <<CELL_1000, Dec(MaxSamples)>>, LINE_START, LINE_TRIGGER,
      <<TYPE_BINARY>>, LINE_1>>
\* the header of the DAT section with its count of bytes
DatBinaryHeader(n) ==
    <<<<"-", "-", "-", " ", "f", "i", "l", "e", " ", "t", "y", "p", "e", ":", " ", "D", "A", "T", " ", "B", "I", "N", "A", "R", "Y", ":", " ">> \o Dec(n)
      \o <<" ", "-", "-", "-">>>>
\* the text sections between the CFG section and the DAT section
BinSections == {1, 2}
TextBefore(sections) ==
    IF sections = 1 THEN <<>>
    ELSE <<CffHeaderLines(1).inf, <<<<"s", "o", "m", "e">>, <<" ", "t", "e", "x", "t">>>>,
           CffHeaderLines(1).hdr, <<<<"m", "o", "r", "e">>>>>>
BinTextLines(sections, n) ==
    <<CffHeaderLines(1).cfg>> \o BinCfgLines \o TextBefore(sections)
    \o <<DatBinaryHeader(n)>>
\* the counts of bytes that the header may declare: none, part of a
\* record, one record, the data, the data and the ten bytes before it, and
\* more than the file holds (size: that of the file when the count is
\* written with three digits)
RecordBytes == SAMPLE_NUMBER_BYTES + TIME_BYTES + 2
DeclaredBytes(size) ==
    {0, 3, RecordBytes, 2 * RecordBytes, 3 * RecordBytes, size + 1, size + RecordBytes}

\* _load_cff up to its loop: _file_is_utf8 reads the whole file, open()
\* takes utf-8 or the encoding of the locale, and the first readline()
\* decodes the file (shorter than one chunk of the text layer) whole
LoadCffBinary(sections, n, data, locale) ==
    /\ entry = "Comtrade.load" /\ pc = "load"
    /\ LET text == BinTextLines(sections, n)
           bytes == TextBytes(text) \o data
           encoding == IF _file_is_utf8(locale, bytes) THEN "utf-8" ELSE locale
       IN  /\ cff' = [NoCff EXCEPT !.file = text \o BytesAsLines(data, <<>>),
                                   !.bytes = bytes, !.encoding = encoding]
           /\ IF Decodable(encoding, bytes)
              THEN pc' = "cff_scan" /\ err' = err
              ELSE Raise("UnicodeDecodeError")
    /\ UNCHANGED <<earlier, pair, entry, cfg, cfgIn, ct, dat, datIn, datTail, warns, nvar>>

\* after the loop, the format of the last header not being ASCII: the file
\* is opened again as bytes, getsize - fbytes bytes are read and dropped
\* (read(-1) reads to the end, a lower count raises), the next fbytes bytes
\* are the data, and self.read is called
CffReadBytes ==
    /\ pc = "cff_scan"
    /\ cff.line_number = Len(cff.file) \/ cff.stopped
    /\ cff.fformat # Str(TYPE_ASCII)
    /\ LET total_bytes == Len(cff.bytes)
           cff_bytes_read == total_bytes - cff.fbytes
       IN  IF cff_bytes_read < -1
           THEN cff' = cff /\ Raise("ValueError")
           ELSE /\ cff' = [cff EXCEPT !.reading = TRUE,
                             !.dat_bytes = IF cff_bytes_read = -1 THEN <<>>
                                           ELSE SubSeq(cff.bytes, cff_bytes_read + 1,
                                                       total_bytes)]
                /\ pc' = "line1" /\ err' = err
    /\ UNCHANGED <<earlier, pair, entry, cfg, cfgIn, ct, dat, datIn, datTail, warns, nvar>>

\* BinaryDatReader.parse up to its loop, on the bytes handed over
CffBeginParse ==
    /\ pc = "parse" /\ IsBinary(dat)
    /\ IF ~ReaderFormat(dat, cfg).ok
       THEN datTail' = 0 /\ Raise("KeyError")
       ELSE /\ datTail' = Len(cff.dat_bytes) % StructSize(dat.class, ReaderFormat(dat, cfg))
            /\ IF datTail' # 0 THEN Raise("struct.error")
               ELSE pc' = "rows" /\ err' = err
    /\ UNCHANGED <<earlier, cff, pair, entry, cfg, cfgIn, ct, dat, datIn, warns, nvar>>

\* the tuple that iter_unpack yields for record k of the bytes: two
\* unsigned 32 bit integers, then signed 16 bit analog values and unsigned
\* 16 bit status groups, all little endian
ByteAt(b, i) == b[i] + 256 * b[i + 1]
UnpackRecord(b, k, fmt) ==
    LET o == (k - 1) * (SAMPLE_NUMBER_BYTES + TIME_BYTES + 2 * (fmt.acount + fmt.dcount))
        s16(x) == IF x >= 32768 THEN x - 65536 ELSE x
    IN  <<ByteAt(b, o + 1) + 65536 * ByteAt(b, o + 3),
          <<ByteAt(b, o + 7), ByteAt(b, o + 5)>>>>
        \o [i \in 1..fmt.acount |-> s16(ByteAt(b, o + 7 + 2 * i))]
        \o [g \in 1..fmt.dcount |-> ByteAt(b, o + 7 + 2 * fmt.acount + 2 * g)]
\* the number of whole records in the bytes handed over
CffRecords == Len(cff.dat_bytes) \div StructSize(dat.class, ReaderFormat(dat, cfg))
CffBinaryInput ==
    IF pc = "rows" /\ IsBinary(dat) /\ Len(datIn) < CffRecords
    THEN {UnpackRecord(cff.dat_bytes, Len(datIn) + 1, ReaderFormat(dat, cfg))}
    ELSE {}
CffBytesEnd == Len(datIn) = CffRecords

InitBinary == InitLoad

NextBinary ==
    \/ \E sections \in BinSections, data \in BinData, locale \in Locales :
          \E n \in DeclaredBytes(Len(TextBytes(BinTextLines(sections, 100))) + Len(data)) :
              LoadCffBinary(sections, n, data, locale)
    \/ ScanCffLine
    \/ CffReadBytes
    \/ \E line \in CffLines("line1") : ReadFirstLine(line)
    \/ \E line \in CffLines("line2") : ReadCountsLine(line)
    \/ \E line \in CffLines("analog") : ReadAnalogLine(line)
    \/ \E line \in CffLines("frequency") : ReadFrequencyLine(line)
    \/ \E line \in CffLines("nrates") : ReadNratesLine(line)
    \/ \E line \in CffLines("rate") : ReadSampleRateLine(line)
    \/ \E line \in CffLines("start") : ReadStartTimestamp(line)
    \/ \E line \in CffLines("trigger") : ReadTriggerTimestamp(line)
    \/ \E line \in CffLines("ft") : ReadFileType(line)
    \/ \E line \in CffLines("timemult") : ReadTimeMultiplier(line)
    \/ ExtractChannels
    \/ GetDatReader
    \/ Preallocate
    \/ CffBeginParse
    \/ \E values \in CffBinaryInput : ParseBinaryRow(values)
    \/ CffBytesEnd /\ EndOfData
    \/ DatExtractData

SpecBinary == InitBinary /\ [][NextBinary]_vars

(***************************************************************************)
(* Cfg.read called twice on one Cfg object, and then the second stream     *)
(* read by a Cfg object just made                                          *)
(***************************************************************************)
LINE_REV2013 ==
    <<<<"S", "T">>, <<"E", "Q">>, <<"2", "0", "1", "3">>>>
\* the lines of the first and of the second stream
StreamLines(p) ==
    CASE p = "line1" -> {LINE_REV1999, LINE_REV1991, LINE_REV2013}
      [] p = "line2" -> {<<<<"1">>, <<"1", "A">>, <<"0", "D">>>>}
      [] p = "analog" -> {RefAnalogLine(1)}
      [] p = "frequency" -> {LINE_60, BlankLine}
      [] p = "nrates" -> {LINE_0, LINE_1}
      [] p = "rate" -> {<<CELL_1000, Dec(MaxSamples)>>}
      [] p = "start" -> {LINE_START, LINE_NANO}
      [] p = "trigger" -> {LINE_TRIGGER}
      [] p = "ft" -> {<<TYPE_ASCII>>}
      [] p = "timemult" -> {LINE_2, BlankLine}
      [] p = "time_code" -> {LINE_TIMECODE, EOF}
      [] p = "tmq_code" -> {LINE_TMQ}
\* what the next readline() returns: a line of the stream being read, or,
\* for the object just made, the next line of the second stream
AgainLines(p) ==
    IF pc # p THEN {}
    ELSE IF earlier.phase = "fresh"
    THEN (IF Len(cfgIn) < Len(earlier.lines)
          THEN {earlier.lines[Len(cfgIn) + 1]} ELSE {})
    ELSE StreamLines(p)

\* read is called again on the Cfg object that has read a stream
ReadAgain ==
    /\ entry = "Cfg.read" /\ pc = "done" /\ earlier.phase = "first"
    /\ earlier' = [phase |-> "second", cfg |-> cfg, lines |-> <<>>]
    /\ pc' = "line1"
    /\ cfgIn' = <<>>
    /\ warns' = {}
    /\ nvar' = 0
    /\ UNCHANGED <<cff, pair, entry, err, cfg, ct, dat, datIn, datTail>>

\* a Cfg object is made and reads the stream that the first object has
\* read last
ReadFresh ==
    /\ entry = "Cfg.read" /\ pc = "done" /\ earlier.phase = "second"
    /\ earlier' = [phase |-> "fresh", cfg |-> cfg, lines |-> cfgIn]
    /\ cfg' = CfgInit(cfg.ignore_warnings)
    /\ pc' = "line1"
    /\ cfgIn' = <<>>
    /\ warns' = {}
    /\ nvar' = 0
    /\ UNCHANGED <<cff, pair, entry, err, ct, dat, datIn, datTail>>

InitAgain == InitWith("Cfg.read")

NextAgain ==
    \/ \E line \in AgainLines("line1") : ReadFirstLine(line)
    \/ \E line \in AgainLines("line2") : ReadCountsLine(line)
    \/ \E line \in AgainLines("analog") : ReadAnalogLine(line)
    \/ \E line \in AgainLines("frequency") : ReadFrequencyLine(line)
    \/ \E line \in AgainLines("nrates") : ReadNratesLine(line)
    \/ \E line \in AgainLines("rate") : ReadSampleRateLine(line)
    \/ \E line \in AgainLines("start") : ReadStartTimestamp(line)
    \/ \E line \in AgainLines("trigger") : ReadTriggerTimestamp(line)
    \/ \E line \in AgainLines("ft") : ReadFileType(line)
    \/ \E line \in AgainLines("timemult") : ReadTimeMultiplier(line)
    \/ \E line \in AgainLines("time_code") : ReadTimeCodes(line)
    \/ \E line \in AgainLines("tmq_code") : ReadTmqCodes(line)
    \/ FinishCfgRead
    \/ ReadAgain
    \/ ReadFresh

SpecAgain == InitAgain /\ [][NextAgain]_vars

(***************************************************************************)
(* Comtrade.read of ASCII streams of one analog channel whose rows carry   *)
(* the sample numbers 1, 2, 3, ..., under one or two sample rate segments  *)
(***************************************************************************)
SegmentSamples == 4
SegmentRates == {500, 1000, 4000}
\* the rate lines: the first segment ends before the last sample when
\* there are two, the last segment ends at the last sample
RateLines(c) ==
    IF c.nrates = 2 /\ c.sample_rates = <<>>
    THEN {<<Dec(rate), Dec(e)>> : rate \in SegmentRates, e \in 1..(SegmentSamples - 1)}
    ELSE {<<Dec(rate), Dec(SegmentSamples)>> : rate \in SegmentRates}
SegmentLines(p) ==
    IF pc # p THEN {}
    ELSE CASE p = "line1" -> {LINE_REV1999}
           [] p = "line2" -> {<<<<"1">>, <<"1", "A">>, <<"0", "D">>>>}
           [] p = "analog" -> {RefAnalogLine(1)}
           [] p = "frequency" -> {LINE_60}
           [] p = "nrates" -> {LINE_1, LINE_2}
           [] p = "rate" -> RateLines(cfg)
           [] p = "start" -> {LINE_START}
           [] p = "trigger" -> {LINE_TRIGGER}
           [] p = "ft" -> {<<TYPE_ASCII>>}
           [] p = "timemult" -> {LINE_1}
\* the next row: sample number Len(datIn) + 1, with or without a time stamp
SegmentRows ==
    IF pc # "rows" THEN {}
    ELSE {AsciiLine([n |-> Len(datIn) + 1, stamped |-> s, payload |-> 1],
                    Len(datIn) + 1, cfg, <<>>) : s \in BOOLEAN}

InitRates == InitWith("Comtrade.read")

NextRates ==
    \/ \E line \in SegmentLines("line1") : ReadFirstLine(line)
    \/ \E line \in SegmentLines("line2") : ReadCountsLine(line)
    \/ \E line \in SegmentLines("analog") : ReadAnalogLine(line)
    \/ \E line \in SegmentLines("frequency") : ReadFrequencyLine(line)
    \/ \E line \in SegmentLines("nrates") : ReadNratesLine(line)
    \/ \E line \in SegmentLines("rate") : ReadSampleRateLine(line)
    \/ \E line \in SegmentLines("start") : ReadStartTimestamp(line)
    \/ \E line \in SegmentLines("trigger") : ReadTriggerTimestamp(line)
    \/ \E line \in SegmentLines("ft") : ReadFileType(line)
    \/ \E line \in SegmentLines("timemult") : ReadTimeMultiplier(line)
    \/ ExtractChannels
    \/ GetDatReader
    \/ Preallocate
    \/ BeginParse
    \/ \E line \in SegmentRows : ParseAsciiLine(line)
    \/ EndOfData
    \/ DatExtractData

SpecRates == InitRates /\ [][NextRates]_vars

(***************************************************************************)
(* Properties.  They relate what was read (cfgIn, datIn, datTail) to what  *)
(* the objects hold afterwards.                                            *)
(***************************************************************************)
\* Comtrade.read has returned
Decoded == entry = "Comtrade.read" /\ pc = "done"
\* Cfg.read has returned
Parsed ==
    pc \in {"cfg_read", "get_dat_reader", "preallocate", "parse", "rows",
            "extract_data", "done"}
\* the physical rows that lie within the sample count
RowsDecoded ==
    1..(IF Len(datIn) < ct.total_samples THEN Len(datIn) ELSE ct.total_samples)
\* the fields of physical row r, as numbers
RowSample(r) == IF IsBinary(dat) THEN datIn[r][1] ELSE IntOf(datIn[r][1])
RowStamp(r) == IF IsBinary(dat) THEN datIn[r][2] ELSE U32Of(Strip(datIn[r][2]))
RowAnalog(r, i) == IF IsBinary(dat) THEN datIn[r][i + 2] ELSE FloatOf(datIn[r][i + 2])
\* the segments whose bound is at least n, and the rate of the first of them
Covering(n) == {i \in 1..Len(cfg.sample_rates) : cfg.sample_rates[i][2] >= n}
FirstCovering(n) == CHOOSE i \in Covering(n) : \A j \in Covering(n) : i <= j
CoveringRate(n) ==
    IF Covering(n) = {} THEN 1 ELSE cfg.sample_rates[FirstCovering(n)][1]
\* the two ways to a time, in seconds
IndexTime(n) == Rat(n - 1, CoveringRate(n))
StampTime(ts) == Rat(U32Nat(ts) * cfg.time_multiplier, cfg.time_base)
RatDiff(x, y) == Rat(x[1] * y[2] - y[1] * x[2], x[2] * y[2])
\* the configuration lines by their place in the stream
AnalogLine(i) == cfgIn[2 + i]
StatusLine(j) == cfgIn[2 + cfg.analog_count + j]
NratesLine == cfgIn[4 + cfg.analog_count + cfg.status_count]
DeclaredNrates == IntOf(Strip(LineText(NratesLine)))
DeclaredTotal == IntOf(Strip(cfgIn[2][1]))
DeclaredAnalog == IntOf(ButLast(Strip(cfgIn[2][2])))
DeclaredStatus == IntOf(ButLast(Strip(cfgIn[2][3])))

\* C1: once the reader has preallocated, and after every successful decode,
\* the time array, each analog array and each status array have the length
\* of the last sample rate segment's bound, which is total_samples, however
\* many rows the stream holds; there is one analog array per analog channel
\* and one status array per status channel.
C1_ArrayLengths ==
    LET steps == cfg.sample_rates[Len(cfg.sample_rates)][2]
        Shaped(time, analog, status, total) ==
            /\ total = steps
            /\ Len(time) = steps
            /\ Len(analog) = cfg.analog_count
            /\ Len(status) = cfg.status_count
            /\ \A i \in 1..Len(analog) : Len(analog[i]) = steps
            /\ \A i \in 1..Len(status) : Len(status[i]) = steps
    IN  /\ (entry = "Comtrade.read" /\ pc \in {"parse", "rows", "extract_data", "done"})
              => Shaped(dat.time, dat.analog, dat.status, dat.total_samples)
        /\ Decoded => Shaped(ct.time_values, ct.analog_values, ct.status_values,
                             ct.total_samples)
C1_Witness ==
    /\ Decoded
    /\ dat.class = "Float32DatReader"
    /\ cfg.analog_count = 2 /\ cfg.status_count = 2
    /\ Len(cfg.sample_rates) = 2
    /\ Len(datIn) < ct.total_samples
    /\ Len(ct.time_values) = 2

\* C2: after a successful decode, for every row r within the sample count
\* and every analog channel i (by list position), analog[i][r] is
\* a_i * raw + b_i, raw being the i-th analog field of row r.
C2_AnalogScaling ==
    Decoded =>
        \A r \in RowsDecoded : \A i \in 1..cfg.analog_count :
            ct.analog_values[i][r] =
                cfg.analog_channels[i].a * RowAnalog(r, i) + cfg.analog_channels[i].b
C2_Witness ==
    /\ Decoded
    /\ dat.class = "Binary32DatReader"
    /\ cfg.analog_count = 2
    /\ cfg.analog_channels[2].a = 5 /\ cfg.analog_channels[2].b = 2
    /\ Len(datIn) >= 2 /\ ct.total_samples = 2
    /\ ct.analog_values[2][2] = 5 * datIn[2][4] + 2
    /\ ct.analog_values[2][2] < 0

\* C3: in the binary formats the status values of a decoded row are the
\* bits of its 16 bit groups, least significant bit first: the values of
\* the channels of group g, weighted by 1, 2, 4, ..., add up to the group's
\* value (cut to the channels that exist), each value is 0 or 1, and a
\* group value of 3 gives its channels 0 and 1 the value 1 and 2..15 the
\* value 0.
RECURSIVE PackedValue(_, _, _)
PackedValue(status, from, to) ==
    IF from > to THEN 0
    ELSE status[from][1] + 2 * PackedValue(status, from + 1, to)
C3_StatusBits ==
    (Decoded /\ IsBinary(dat) /\ Len(datIn) >= 1) =>
        LET schannel == cfg.status_count
            Group(g) == datIn[1][2 + cfg.analog_count + g + 1]
            Last(g) == IF 16 * g + 16 < schannel THEN 16 * g + 16 ELSE schannel
        IN  /\ \A k \in 1..schannel : ct.status_values[k][1] \in {0, 1}
            /\ \A g \in 0..((schannel - 1) \div 16) :
                  /\ PackedValue(ct.status_values, 16 * g + 1, Last(g))
                        = Group(g) % (2 ^ (Last(g) - 16 * g))
                  /\ Group(g) = 3 =>
                        \A k \in (16 * g)..(Last(g) - 1) :
                            ct.status_values[k + 1][1] = IF k - 16 * g < 2 THEN 1 ELSE 0
C3_Witness ==
    /\ Decoded /\ IsBinary(dat)
    /\ cfg.status_count = 33
    /\ Len(datIn) >= 1
    /\ datIn[1][4] = 3 /\ datIn[1][5] = 43690 /\ datIn[1][6] = 65535
    /\ ct.status_values[2][1] = 1 /\ ct.status_values[3][1] = 0
    /\ ct.status_values[17][1] = 0 /\ ct.status_values[18][1] = 1
    /\ ct.status_values[33][1] = 1

\* C4 (as the code has it): the time of a decoded row with sample number n
\* and raw stamp ts is (n-1)/rate when the stamps are not critical (rate
\* count other than 0) or ts is 0xFFFFFFFF, rate being the rate of the first
\* segment whose bound is at least n, or 1 when there is none; it is
\* ts * time_base * time_multiplier when the stamps are critical and ts is
\* present.
C4_TimeRule ==
    Decoded =>
        \A r \in RowsDecoded :
            IF ~cfg.timestamp_critical \/ RowStamp(r) = TIMESTAMP_MISSING
            THEN /\ CoveringRate(RowSample(r)) # 0
                 /\ ct.time_values[r] = IndexTime(RowSample(r))
            ELSE ct.time_values[r] = StampTime(RowStamp(r))
C4_Witness ==
    /\ Decoded
    /\ cfg.timestamp_critical
    /\ Len(datIn) >= 2 /\ ct.total_samples = 2
    /\ RowStamp(1) # TIMESTAMP_MISSING /\ RowStamp(2) = TIMESTAMP_MISSING
    /\ CoveringRate(1) = 1000
    /\ ct.time_values[1] = StampTime(RowStamp(1))
    /\ ct.time_values[1] # IndexTime(RowSample(1))
    /\ ct.time_values[2] = IndexTime(RowSample(2))
\* C4 as stated: (n-1)/rate when the stamps are critical, or when they are
\* not and ts is 0xFFFFFFFF; the stamp when they are not critical and ts is
\* present (rows that a segment covers, rate other than 0).
C4_TimeRuleAsStated ==
    Decoded =>
        \A r \in RowsDecoded :
            (Covering(RowSample(r)) # {} /\ CoveringRate(RowSample(r)) # 0) =>
                IF cfg.timestamp_critical \/ RowStamp(r) = TIMESTAMP_MISSING
                THEN ct.time_values[r] = IndexTime(RowSample(r))
                ELSE ct.time_values[r] = StampTime(RowStamp(r))

\* C5: once the rate lines are read, a rate count line of 0 has set
\* timestamp_critical and exactly one rate line was read, and any other
\* count has cleared the flag; and after a decode under a rate count of 0
\* every row whose stamp is not 0xFFFFFFFF has the time
\* stamp * time_base * time_multiplier.
C5_RateCountZero ==
    /\ (Parsed \/ pc \in {"start", "trigger", "ft", "timemult", "time_code", "tmq_code"})
          => IF DeclaredNrates = 0
             THEN /\ cfg.timestamp_critical
                  /\ Len(cfg.sample_rates) = 1
                  /\ pc = "start" =>
                        Len(cfgIn) = 5 + cfg.analog_count + cfg.status_count
             ELSE ~cfg.timestamp_critical
    /\ (Decoded /\ DeclaredNrates = 0) =>
          \A r \in RowsDecoded :
              RowStamp(r) # TIMESTAMP_MISSING =>
                  ct.time_values[r] = StampTime(RowStamp(r))
C5_Witness ==
    /\ Decoded
    /\ DeclaredNrates = 0 /\ cfg.timestamp_critical
    /\ CoveringRate(1) = 1000
    /\ Len(datIn) >= 1
    /\ RowStamp(1) # TIMESTAMP_MISSING
    /\ ct.time_values[1] = StampTime(RowStamp(1))
    /\ ct.time_values[1] # IndexTime(RowSample(1))

\* C6: a decoded row whose stamp is 0xFFFFFFFF and whose sample number n is
\* covered by a segment of rate other than 0 has the time (n-1)/rate,
\* critical stamps or not; two such rows of consecutive sample numbers in
\* one segment are 1/rate apart.
C6_MissingStamp ==
    Decoded =>
        LET Computed(r) ==
                /\ RowStamp(r) = TIMESTAMP_MISSING
                /\ Covering(RowSample(r)) # {}
                /\ CoveringRate(RowSample(r)) # 0
        IN  /\ \A r \in RowsDecoded :
                  Computed(r) => ct.time_values[r] = Rat(RowSample(r) - 1,
                                                         CoveringRate(RowSample(r)))
            /\ \A r1, r2 \in RowsDecoded :
                  (/\ Computed(r1) /\ Computed(r2)
                   /\ RowSample(r2) = RowSample(r1) + 1
                   /\ FirstCovering(RowSample(r1)) = FirstCovering(RowSample(r2)))
                  => RatDiff(ct.time_values[r2], ct.time_values[r1])
                        = Rat(1, CoveringRate(RowSample(r1)))
C6_Witness ==
    /\ Decoded
    /\ cfg.timestamp_critical
    /\ Len(datIn) >= 2 /\ ct.total_samples = 2
    /\ RowStamp(1) = TIMESTAMP_MISSING /\ RowStamp(2) = TIMESTAMP_MISSING
    /\ RowSample(1) = 1 /\ RowSample(2) = 2
    /\ CoveringRate(2) = 1000
    /\ ct.time_values[2] = <<1, 1000>>

\* C7 as stated: a stream that holds total_samples rows and then more is
\* decoded without an error.
C7_ExtraRowsIgnored ==
    (entry = "Comtrade.read" /\ dat.total_samples > 0
        /\ Len(datIn) > dat.total_samples) => pc # "error"

\* C8 as stated: a stream that ends in an incomplete record (bytes after the
\* last complete binary record; a blank or cut short last ASCII row) is
\* decoded without an error.
C8_CleanStopAtEnd ==
    entry = "Comtrade.read" =>
        /\ datTail # 0 => pc # "error"
        /\ (/\ dat.class = "AsciiDatReader" /\ datIn # <<>>
            /\ \/ datIn[Len(datIn)] = BlankLine
               \/ Len(datIn[Len(datIn)]) < 2 + cfg.analog_count + cfg.status_count)
           => pc # "error"

C10_ListOrder ==
    LET LineOffset(cell) == IF Strip(cell) = <<>> THEN 0 ELSE FloatOf(cell)
    IN  /\ Parsed =>
              /\ Len(cfg.analog_channels) = cfg.analog_count
              /\ Len(cfg.status_channels) = cfg.status_count
              /\ \A i \in 1..cfg.analog_count :
                    /\ cfg.analog_channels[i] # None
                    /\ cfg.analog_channels[i].n = IntOf(AnalogLine(i)[1])
                    /\ cfg.analog_channels[i].name = Strip(AnalogLine(i)[2])
              /\ \A j \in 1..cfg.status_count :
                    /\ cfg.status_channels[j] # None
                    /\ cfg.status_channels[j].n = IntOf(StatusLine(j)[1])
                    /\ cfg.status_channels[j].name = Strip(StatusLine(j)[2])
        /\ Decoded =>
              /\ \A i \in 1..cfg.analog_count :
                    /\ ct.analog_channel_ids[i] = Strip(AnalogLine(i)[2])
                    /\ \A r \in RowsDecoded :
                          ct.analog_values[i][r] =
                              FloatOf(AnalogLine(i)[6]) * RowAnalog(r, i)
                                  + LineOffset(AnalogLine(i)[7])
              /\ \A j \in 1..cfg.status_count :
                    ct.status_channel_ids[j] = Strip(StatusLine(j)[2])
C10_Witness ==
    /\ Decoded
    /\ cfg.analog_count = 2 /\ cfg.status_count = 2
    /\ cfg.analog_channels[1].n = 1 /\ cfg.analog_channels[2].n = 1
    /\ cfg.analog_channels[1].a # cfg.analog_channels[2].a
    /\ cfg.status_channels[1].n = cfg.status_channels[2].n
    /\ ct.status_channel_ids[1] # ct.status_channel_ids[2]
    /\ Len(datIn) >= 1
    /\ ct.analog_values[2][1] = 5 * RowAnalog(1, 2) + 2

\* the data format line by its place in the stream, and its tag
FtIndex == 7 + cfg.analog_count + cfg.status_count + cfg.nrates
FtTag == Strip(LineText(cfgIn[FtIndex]))
\* two texts that differ in the case of their letters at most
SameIgnoringCase(s, t) ==
    /\ Len(s) = Len(t)
    /\ \A i \in 1..Len(s) :
          \/ s[i] = t[i]
          \/ \E k \in 1..Len(LowerChars) :
                {s[i], t[i]} = {LowerChars[k], UpperChars[k]}
\* the decoder a tag names
TagClass(tag) ==
    IF SameIgnoringCase(tag, TYPE_ASCII) THEN "AsciiDatReader"
    ELSE IF SameIgnoringCase(tag, TYPE_BINARY) THEN "BinaryDatReader"
    ELSE IF SameIgnoringCase(tag, TYPE_BINARY32) THEN "Binary32DatReader"
    ELSE IF SameIgnoringCase(tag, TYPE_FLOAT32) THEN "Float32DatReader"
    ELSE "none"
\* Comtrade.read has gone past _get_dat_reader, or has failed in it
PastGetDatReader ==
    /\ entry = "Comtrade.read"
    /\ pc \in {"preallocate", "parse", "rows", "extract_data", "done", "error"}
    /\ Len(cfgIn) >= FtIndex

\* C11: once Comtrade.read has gone past the choice of the decoder, a data
\* format tag that is ASCII, BINARY, BINARY32 or FLOAT32 in any case of its
\* letters has given the decoder of that format, and any other tag has
\* ended the call with the error "Not supported data file format", with no
\* decoder made and nothing read from the data stream.
C11_FormatTag ==
    PastGetDatReader =>
        IF TagClass(FtTag) # "none"
        THEN /\ dat.class = TagClass(FtTag)
             /\ err # "Exception: Not supported data file format"
        ELSE /\ pc = "error"
             /\ err = "Exception: Not supported data file format"
             /\ dat = NoReader
             /\ datIn = <<>> /\ datTail = 0
             /\ ct.time_values = <<>>
\* the tag float32, in lower case, decoded by the FLOAT32 decoder
C11_Witness ==
    /\ Decoded
    /\ FtTag = <<"f", "l", "o", "a", "t", "3", "2">>
    /\ dat.class = "Float32DatReader"
    /\ Len(datIn) = ct.total_samples
\* the tag XML has ended the call in _get_dat_reader
C11_UnknownTagReached ==
    /\ PastGetDatReader
    /\ FtTag = <<"X", "M", "L">>
    /\ pc = "error"

\* C12: when Comtrade.read has ended in a fatal error, the configuration
\* fields, the channel id and phase lists and the time, analog and status
\* arrays of the object are what they were before the call.
C12_AllOrNothing ==
    (entry = "Comtrade.read" /\ pc = "error") =>
        /\ cfg = CfgInit(cfg.ignore_warnings)
        /\ ct = ComtradeInit
\* what a failed call does leave as it was: the three arrays
C12_ArraysKept ==
    (entry = "Comtrade.read" /\ pc = "error") =>
        /\ ct.time_values = ComtradeInit.time_values
        /\ ct.analog_values = ComtradeInit.analog_values
        /\ ct.status_values = ComtradeInit.status_values

\* the time stamp lines that may be read next
StampLines == Lines("start") \cup Lines("trigger")
\* what _read_timestamp gives for a line under a value of the flag
StampUnder(line, w) == _read_timestamp(Cells(line), cfg.rev_year, w)

C13_WarnedWhenClear ==
    /\ entry = "Cfg.read" /\ pc = "done"
    /\ ~cfg.ignore_warnings
    /\ cfg.rev_year = <<"2", "0", "0", "1">>
    /\ cfg.time_base = TIME_BASE_NANOSEC
    /\ warns = {"WARNING_UNKNOWN_REVISION", "WARNING_DATETIME_NANO"}

\* the time stamp lines by their place in the stream
StartIndex == 5 + cfg.analog_count + cfg.status_count + cfg.nrates
TriggerIndex == StartIndex + 1
\* the start time stamp line has been read
StartRead ==
    /\ pc \notin {"line1", "line2", "analog", "status", "frequency", "nrates",
                  "rate", "start"}
    /\ Len(cfgIn) >= StartIndex
    /\ Len(cfg.sample_rates) = cfg.nrates
\* reading the start time stamp line has raised
StartRaised == pc = "error" /\ Len(cfgIn) = StartIndex
\* the start time stamp line as read
StartLine == cfgIn[StartIndex]
\* its time is 10:30:00 and a fraction
StartHasFraction ==
    /\ Len(StartLine) = 2
    /\ Len(StartLine[2]) > Len(TIME_PREFIX)
    /\ SubSeq(StartLine[2], 1, Len(TIME_PREFIX)) = TIME_PREFIX
\* the fraction written on it
StartFraction == SubSeq(StartLine[2], Len(TIME_PREFIX) + 1, Len(StartLine[2]))
\* a digit string padded with zeros on the right to 6 digits, as a number
RECURSIVE PaddedTo6(_)
PaddedTo6(f) == IF Len(f) >= 6 THEN DigitsVal(f) ELSE PaddedTo6(Append(f, "0"))

\* C14: for a start time stamp whose fraction has 1 to 12 digits the time
\* stamp is built without error; with at most 6 digits the microsecond is
\* the fraction padded with zeros to 6 digits and the resolution is
\* microseconds; with more than 6 digits the microsecond is the first 6
\* digits of the fraction and the resolution is nanoseconds; the
\* microsecond lies in 0..999999.
C14_FractionRule ==
    (StartRead /\ StartHasFraction /\ StartLine[1] = CELL_DATE
       /\ Len(StartFraction) \in 1..MaxFraction
       /\ AllDigits(StartFraction)) =>
        /\ ~StartRaised
        /\ cfg.start_timestamp.microsecond \in 0..999999
        /\ IF Len(StartFraction) <= 6
           THEN /\ cfg.start_timestamp.microsecond = PaddedTo6(StartFraction)
                /\ Len(cfgIn) = StartIndex => cfg.time_base = TIME_BASE_MICROSEC
           ELSE /\ cfg.start_timestamp.microsecond =
                       DigitsVal(SubSeq(StartFraction, 1, 6))
                /\ cfg.time_base = TIME_BASE_NANOSEC
\* the same rule for the fractions of 1 to 9 digits only
C14_UpToNineDigits ==
    (StartRead /\ StartHasFraction /\ Len(StartFraction) <= 9)
    => C14_FractionRule
\* the fraction .123456789 stored as 123456 with the nanosecond base
C14_NanoExample ==
    /\ StartRead /\ pc = "done"
    /\ StartHasFraction /\ StartFraction = FRACTION_NANO
    /\ cfg.start_timestamp.microsecond = 123456
    /\ cfg.time_base = TIME_BASE_NANOSEC

\* the number of characters that follow the point of a time cell
FractionLength(cell) ==
    IF \E k \in 1..Len(cell) : cell[k] = "."
    THEN Len(cell) - (CHOOSE k \in 1..Len(cell) : cell[k] = ".")
    ELSE 0
\* a time stamp line whose time has a fraction of more than 6 digits
LongFraction(line) == Len(line) >= 2 /\ FractionLength(line[2]) > 6

\* C15: after a configuration parse time_base is the nanosecond base if the
\* start or the trigger time stamp line had a fraction of more than 6
\* digits, and the microsecond base otherwise.
C15_TimeBase ==
    (Parsed /\ err = "") =>
        cfg.time_base =
            IF LongFraction(cfgIn[StartIndex]) \/ LongFraction(cfgIn[TriggerIndex])
            THEN TIME_BASE_NANOSEC ELSE TIME_BASE_MICROSEC
\* a nanosecond start time stamp followed by a microsecond trigger one
C15_Witness ==
    /\ entry = "Cfg.read" /\ pc = "done"
    /\ LongFraction(cfgIn[StartIndex])
    /\ ~LongFraction(cfgIn[TriggerIndex])
    /\ cfgIn[TriggerIndex] = LINE_TRIGGER
    /\ cfg.time_base = TIME_BASE_NANOSEC
\* the other way round
C15_TriggerOnly ==
    /\ entry = "Cfg.read" /\ pc = "done"
    /\ cfgIn[StartIndex] = LINE_START
    /\ LongFraction(cfgIn[TriggerIndex])
    /\ cfg.time_base = TIME_BASE_NANOSEC

\* line 1 as read
FirstLine == cfgIn[1]

\* C16: once line 1 has been read, a line 1 of two fields (station and
\* device) has not raised and has given revision "1991", and a line 1 of
\* three fields has not raised and has given its third field, stripped of
\* surrounding blanks, as the revision.
C16_Revision ==
    (Len(cfgIn) >= 1 /\ Len(FirstLine) \in {2, 3}) =>
        /\ Len(cfgIn) = 1 => (pc = "line2" /\ err = "")
        /\ cfg.rev_year = IF Len(FirstLine) = 2 THEN REV_1991
                          ELSE Strip(FirstLine[3])
\* a whole parse of a stream whose line 1 has no revision field
C16_Witness ==
    /\ entry = "Cfg.read" /\ pc = "done"
    /\ Len(FirstLine) = 2
    /\ cfg.rev_year = REV_1991
    /\ cfg.station_name = FirstLine[1] /\ cfg.rec_dev_id = FirstLine[2]
\* a third field written with a blank before it
C16_StrippedReached ==
    /\ entry = "Cfg.read" /\ pc = "done"
    /\ Len(FirstLine) = 3
    /\ FirstLine[3] = <<" ", "2", "0", "0", "1">>
    /\ cfg.rev_year = <<"2", "0", "0", "1">>

\* the text of the line that follows the data format line, and the
\* multiplier it states
MultiplierText == Strip(LineText(Cells(cfgIn[FtIndex + 1])))
StatedMultiplier == IF Len(MultiplierText) = 0 THEN 1 ELSE FloatOf(MultiplierText)

\* C17: after a configuration parse of a revision other than 1991, an
\* unrecognized revision included, the line after the data format line has
\* been consumed as the time multiplier, a blank value giving 1.0; for
\* revision 1991 no line has been consumed after the data format line and
\* the multiplier is 1.0.
C17_MultiplierLine ==
    (Parsed /\ err = "") =>
        IF cfg.rev_year = REV_1991
        THEN Len(cfgIn) = FtIndex /\ cfg.time_multiplier = 1
        ELSE Len(cfgIn) > FtIndex /\ cfg.time_multiplier = StatedMultiplier
\* the same with the line consumed for the revisions 1999 and 2013 only
C17_KnownRevisionsOnly ==
    (Parsed /\ err = "") =>
        IF cfg.rev_year \in {REV_1999, REV_2013}
        THEN Len(cfgIn) > FtIndex /\ cfg.time_multiplier = StatedMultiplier
        ELSE Len(cfgIn) = FtIndex /\ cfg.time_multiplier = 1
\* a multiplier of 2 read for revision 2013
C17_MultiplierRead ==
    /\ entry = "Cfg.read" /\ pc = "done"
    /\ cfg.rev_year = REV_2013
    /\ cfg.time_multiplier = 2

\* the numbers of the date of the start time stamp line in the order of
\* the revision (0 where the line has no date)
StartHasDate == Len(StartLine) = 2 /\ Len(StartLine[1]) >= 8
StartDateNumber(k) ==
    IF StartHasDate THEN DigitsVal(SubSeq(StartLine[1], 3 * k - 2, 3 * k - 1)) ELSE 0
StartDay == IF cfg.rev_year = REV_1991 THEN StartDateNumber(2) ELSE StartDateNumber(1)
StartMonth == IF cfg.rev_year = REV_1991 THEN StartDateNumber(1) ELSE StartDateNumber(2)
StartYear ==
    IF StartHasDate THEN DigitsVal(SubSeq(StartLine[1], 7, Len(StartLine[1]))) ELSE 0
\* the line is blank, or has no date, or a date with a number of 0 whose
\* other numbers are those of a calendar date
MinimumCase ==
    /\ Len(StartLine) <= 2
    /\ Len(StartLine) = 2 =>
          StartLine[2] \in {<<>>, CELL_TIME}
    /\ StartYear = 0 \/ StartMonth = 0 \/ StartDay = 0
    /\ StartMonth <= 12
    /\ StartDay <= (IF StartMonth = 2 THEN 29 ELSE 31)
\* the time stamp the claim expects
MinimumStamp ==
    DateTime(IF StartYear = 0 THEN 1 ELSE StartYear,
             IF StartMonth = 0 THEN 1 ELSE StartMonth,
             IF StartDay = 0 THEN 1 ELSE StartDay,
             IF Len(StartLine) = 2 /\ StartLine[2] = CELL_TIME THEN 10 ELSE 0,
             IF Len(StartLine) = 2 /\ StartLine[2] = CELL_TIME THEN 30 ELSE 0,
             0,
             IF Len(StartLine) = 2 /\ StartLine[2] = CELL_TIME THEN 500000 ELSE 0)

\* C18: a start time stamp line that is blank, or has no date, or has a
\* date whose year, month or day is 0, has not made the parse fail: the
\* time stamp has year 1, month 1, day 1 for each such component (a blank
\* line or an empty cell gives 0001-01-01 00:00:00.000000 with the
\* microsecond base), and the substitution has been warned of unless
\* ignore_warnings is set.
C18_MinimumDate ==
    (StartRead /\ MinimumCase) =>
        /\ ~StartRaised
        /\ cfg.start_timestamp = MinimumStamp
        /\ Len(cfgIn) = StartIndex => cfg.time_base = TIME_BASE_MICROSEC
        /\ ("WARNING_MINDATE" \in warns) = ~cfg.ignore_warnings
\* the same but for 29 February of a year 0, which is no date of year 1
C18_ButLeapDay ==
    (StartRead
       /\ ~(StartYear = 0 /\ StartMonth = 2 /\ StartDay = 29))
    => C18_MinimumDate
\* a blank line parsed to the minimum date
C18_BlankReached ==
    /\ entry = "Cfg.read" /\ pc = "done"
    /\ StartLine = BlankLine
    /\ cfg.start_timestamp = DateTime(1, 1, 1, 0, 0, 0, 0)
    /\ warns = {"WARNING_MINDATE"}

\* the last line read, and its place in the stream
LastLine == cfgIn[Len(cfgIn)]
AtAnalogLine == Len(cfgIn) \in 3..(2 + cfg.analog_count)
AtStatusLine ==
    Len(cfgIn) \in (3 + cfg.analog_count)..(2 + cfg.analog_count + cfg.status_count)
FrequencyIndex == 3 + cfg.analog_count + cfg.status_count
\* a cell that is written but blank
BlankCell(line, k) == Len(line) >= k /\ Len(Strip(line[k])) = 0
\* a channel line with all its cells, or a frequency line, whose optional
\* value is blank
BlankOptional(line) ==
    \/ AtAnalogLine /\ Len(line) = 13 /\ (BlankCell(line, 7) \/ BlankCell(line, 8))
    \/ AtStatusLine /\ Len(line) = 5 /\ BlankCell(line, 5)
    \/ Len(cfgIn) = FrequencyIndex /\ Len(Strip(LineText(Cells(line)))) = 0

C19_BlankStateReached ==
    /\ entry = "Cfg.read" /\ pc = "done"
    /\ cfg.status_count >= 1
    /\ Len(StatusLine(1)) = 5 /\ BlankCell(StatusLine(1), 5)
    /\ cfg.status_channels[1].y = 0

(***************************************************************************)
(* C20  A combined file that holds the lines of a pair loads as the pair   *)
(***************************************************************************)
\* the second object is reading the sections of the combined file
CffReading == cff.reading
\* the rows that the combined file holds under its DAT header
CffDatRow(k) ==
    LET first == CHOOSE i \in 1..Len(cff.file) :
                     CffHeader(cff.file[i]).ftype = Str(FTYPE_DAT)
    IN  IF first + k <= Len(cff.file) THEN cff.file[first + k] ELSE BlankLine
\* the combined file holds a data row written between blanks
PaddedRowHeld ==
    \E k \in 1..Len(pair.ct.time_values) : At(CffDatRow(k)[1], 1) = " "
\* C20: when a combined file holds, under its CFG header and its ASCII DAT
\* header, the lines that were read from a pair which loaded, then loading
\* the combined file raises nothing, and when it is done the configuration
\* (station, device, revision, counts, channels, frequency, rates, time
\* stamps, time base, format, multiplier) and the object (total samples,
\* time, analog and status arrays) are equal to those loaded from the pair.
C20_CffAsPair ==
    CffReading =>
        /\ pc # "error"
        /\ pc = "done" => cfg = pair.cfg /\ ct = pair.ct
\* the same, for a combined file whose DAT section is its last section
C20_DatSectionLast ==
    (CffReading /\ cff.fformat = Str(TYPE_ASCII)) =>
        /\ pc # "error"
        /\ pc = "done" => cfg = pair.cfg /\ ct = pair.ct
\* with another section after the DAT section nothing is raised, the
\* configuration is that of the pair and no row is decoded
C20_DatSectionEarlier ==
    (CffReading /\ cff.fformat # Str(TYPE_ASCII)) =>
        /\ pc # "error"
        /\ cff.dat_lines = <<>>
        /\ pc = "done" =>
              /\ cfg = pair.cfg
              /\ ct.total_samples = pair.ct.total_samples
              /\ \A i \in 1..Len(ct.time_values) : ct.time_values[i] = Zero
              /\ \A k \in 1..Len(ct.analog_values) :
                    \A i \in 1..Len(ct.analog_values[k]) : ct.analog_values[k][i] = 0
\* a combined file with headers in mixed case and with a padded row is
\* loaded, its DAT section last: two samples of an analog and a status
\* channel are decoded
C20_Witness ==
    /\ CffReading /\ pc = "done"
    /\ cff.fformat = Str(TYPE_ASCII)
    /\ cff.file[1] = CffHeaderLines(2).cfg
    /\ PaddedRowHeld
    /\ cfg.analog_count >= 1 /\ cfg.status_count >= 1
    /\ ct.total_samples = 2
    /\ \E i \in 1..2 : ct.analog_values[1][i] # 0
    /\ ct.time_values[2] # Zero
\* a blank last line of the DAT section is no row of the joined text
C20_BlankRowReached ==
    /\ CffReading /\ pc = "done"
    /\ Len(CffRows) < Len(cff.dat_lines)
\* a combined file with its DAT section before its HDR section is loaded
\* from a pair that decoded values other than zero
C20_EarlierReached ==
    /\ CffReading /\ pc = "done"
    /\ cff.fformat # Str(TYPE_ASCII)
    /\ \E i \in 1..Len(pair.ct.time_values) : pair.ct.time_values[i] # Zero

(***************************************************************************)
(* C23  The two lines of codes are read under revision 2013 only           *)
(***************************************************************************)
\* the four codes are those of Cfg.__init__
CodesAtDefault ==
    /\ cfg.time_code = INIT_CODE /\ cfg.local_code = INIT_CODE
    /\ cfg.tmq_code = INIT_CODE /\ cfg.leap_second = INIT_CODE
\* the stream ended right after the time multiplier line
EndedAfterMultiplier ==
    /\ Len(cfgIn) = FtIndex + 2
    /\ cfgIn[FtIndex + 1] # EOF /\ cfgIn[FtIndex + 2] = EOF

\* C23: after a parse under a revision other than 2013 no line has been
\* read past the time multiplier line (past the data format line when the
\* revision has no multiplier line) and the four codes are at their
\* defaults; under revision 2013 a stream that ends right after the time
\* multiplier line does not raise and leaves the four codes at their
\* defaults, and otherwise a parse has read two lines more and the codes
\* are their fields.
C23_CodeLines ==
    /\ (Parsed /\ cfg.rev_year # REV_2013) =>
           /\ Len(cfgIn) = (IF cfg.rev_year = REV_1999 THEN FtIndex + 1 ELSE FtIndex)
           /\ CodesAtDefault
    /\ (cfg.rev_year = REV_2013 /\ EndedAfterMultiplier) =>
           /\ Parsed
           /\ CodesAtDefault
    /\ (Parsed /\ cfg.rev_year = REV_2013 /\ ~EndedAfterMultiplier) =>
           \/ /\ Len(cfgIn) = FtIndex + 3
              /\ cfg.time_code = Strip(cfgIn[FtIndex + 2][1])
              /\ cfg.local_code = Strip(cfgIn[FtIndex + 2][2])
              /\ cfg.tmq_code = Strip(cfgIn[FtIndex + 3][1])
              /\ cfg.leap_second = Strip(cfgIn[FtIndex + 3][2])
           \/ /\ cfgIn[FtIndex + 1] = EOF /\ LastLine = EOF
              /\ CodesAtDefault
\* a parse under revision 2013 of a stream that ends right after its time
\* multiplier line has returned
C23_Witness ==
    /\ entry = "Cfg.read" /\ pc = "done"
    /\ cfg.rev_year = REV_2013 /\ EndedAfterMultiplier
    /\ cfgIn[FtIndex + 1] = LINE_1
\* a parse under revision 2013 has read the two lines of codes
C23_CodesRead ==
    /\ entry = "Cfg.read" /\ pc = "done"
    /\ cfg.rev_year = REV_2013 /\ Len(cfgIn) = FtIndex + 3
    /\ cfg.time_code = <<"-", "3">> /\ cfg.leap_second = <<"3">>
\* a parse under revision 1999 has returned
C23_OlderRevision ==
    /\ entry = "Cfg.read" /\ pc = "done"
    /\ cfg.rev_year = REV_1999 /\ Len(cfgIn) = FtIndex + 1

(***************************************************************************)
(* C27  ASCII rows: the status values are the last fields of the row       *)
(***************************************************************************)
\* the field of physical row r that is k-th of its last status_count fields
RowStatusFromEnd(r, k) == IntOf(datIn[r][Len(datIn[r]) - cfg.status_count + k])
\* physical row r holds more fields than the sample number, the time stamp
\* and one per channel
RowHasExtraField(r) == Len(datIn[r]) > 2 + cfg.analog_count + cfg.status_count

\* C27: after a successful decode of an ASCII stream, for every row r
\* within the sample count, the value of status channel k is the k-th of
\* the last status_count fields of the row, whatever lies between the
\* analog fields and them, the value of analog channel i is made from the
\* field at position i + 1 (counted from 0), and with no status channel
\* there is no status array.
C27_StatusFromEnd ==
    (Decoded /\ ~IsBinary(dat)) =>
        /\ Len(ct.status_values) = cfg.status_count
        /\ \A r \in RowsDecoded :
              /\ \A k \in 1..cfg.status_count :
                    ct.status_values[k][r] = RowStatusFromEnd(r, k)
              /\ \A i \in 1..cfg.analog_count :
                    ct.analog_values[i][r] =
                        cfg.analog_channels[i].a * FloatOf(datIn[r][i + 2])
                        + cfg.analog_channels[i].b
\* a row with a field between its analog fields and its status fields has
\* been decoded, and a status value of it is 1
C27_Witness ==
    /\ Decoded /\ ~IsBinary(dat)
    /\ cfg.analog_count >= 1 /\ cfg.status_count >= 1
    /\ \E r \in RowsDecoded :
          /\ RowHasExtraField(r)
          /\ datIn[r][cfg.analog_count + 3] = CELL_9
          /\ \E k \in 1..cfg.status_count : ct.status_values[k][r] = 1
\* rows have been decoded under a configuration without status channels
C27_NoStatusReached ==
    /\ Decoded /\ ~IsBinary(dat)
    /\ cfg.status_count = 0 /\ cfg.analog_count >= 1
    /\ RowsDecoded # {}
    /\ \E r \in RowsDecoded : RowHasExtraField(r)

(***************************************************************************)
(* C28  Channel lines with fewer fields than their grammar has             *)
(***************************************************************************)
\* the last line read is a channel line with at least its channel number
\* and fewer fields than the 13 (analog) or 5 (status) of the grammar, the
\* numbers among its fields well formed
ShortAnalogLine ==
    /\ AtAnalogLine /\ LastLine # EOF /\ Len(LastLine) < 13
    /\ IsIntText(Strip(LastLine[1]))
    /\ \A p \in {6, 9, 10, 11, 12} : p <= Len(LastLine) => IsFloatText(Strip(LastLine[p]))
    /\ \A p \in {7, 8} :
          p <= Len(LastLine) => Strip(LastLine[p]) = <<>> \/ IsFloatText(Strip(LastLine[p]))
ShortStatusLine ==
    /\ AtStatusLine /\ LastLine # EOF /\ Len(LastLine) < 5
    /\ IsIntText(Strip(LastLine[1]))
\* the descriptor made from the last line read
LastAnalogChannel == cfg.analog_channels[Len(cfgIn) - 2]
LastStatusChannel == cfg.status_channels[Len(cfgIn) - 2 - cfg.analog_count]
\* the text fields of a descriptor by their place in the line
AnalogText(ch, p) ==
    CASE p = 2 -> ch.name [] p = 3 -> ch.ph [] p = 4 -> ch.ccbm
      [] p = 5 -> ch.uu [] p = 13 -> ch.pors
StatusText(ch, p) == CASE p = 2 -> ch.name [] p = 3 -> ch.ph [] p = 4 -> ch.ccbm
\* the numbers of an analog descriptor by their place in the line
AnalogNumber(ch, p) ==
    CASE p = 6 -> ch.a [] p = 7 -> ch.b [] p = 8 -> ch.skew [] p = 9 -> ch.cmin
      [] p = 10 -> ch.cmax [] p = 11 -> ch.primary [] p = 12 -> ch.secondary
\* the last line read has not raised, and the text fields of its descriptor
\* that the line does not have are the text pad
PaddedWith(pad) ==
    /\ ShortAnalogLine =>
          /\ pc # "error"
          /\ \A p \in {2, 3, 4, 5, 13} :
                p > Len(LastLine) => AnalogText(LastAnalogChannel, p) = pad
    /\ ShortStatusLine =>
          /\ pc # "error"
          /\ \A p \in {2, 3, 4} :
                p > Len(LastLine) => StatusText(LastStatusChannel, p) = pad

\* C28 as claimed: a channel line with fewer fields than its grammar has
\* does not raise, and the text fields of the descriptor that the line
\* does not have (name, phase, circuit, unit) are the empty text.
C28_EmptyPlaceholders == PaddedWith(<<>>)
\* C28: a channel line that has its channel number and fewer fields than
\* its grammar has (13 analog, 5 status) does not raise: it is padded with
\* the text "0", so the text fields of the descriptor that the line does
\* not have (name, phase, circuit, unit, P/S) are "0", the numbers it does
\* not have are 0, and the fields it has are kept.
C28_ZeroPlaceholders ==
    /\ PaddedWith(<<"0">>)
    /\ ShortAnalogLine =>
          /\ \A p \in 6..12 : p > Len(LastLine) => AnalogNumber(LastAnalogChannel, p) = 0
          /\ \A p \in {2, 3, 4, 5, 13} :
                p <= Len(LastLine) => AnalogText(LastAnalogChannel, p) = Strip(LastLine[p])
    /\ ShortStatusLine =>
          /\ LastStatusChannel.y = 0
          /\ \A p \in {2, 3, 4} :
                p <= Len(LastLine) => StatusText(LastStatusChannel, p) = Strip(LastLine[p])
\* an analog line of two fields and a status line of two fields have been
\* read in one stream, which has been parsed
C28_Witness ==
    /\ entry = "Cfg.read" /\ pc = "done"
    /\ \E i \in 1..cfg.analog_count :
          /\ Len(AnalogLine(i)) = 2
          /\ cfg.analog_channels[i].name = <<"I", "A">>
          /\ cfg.analog_channels[i].uu = <<"0">>
    /\ \E j \in 1..cfg.status_count :
          /\ Len(StatusLine(j)) = 2
          /\ cfg.status_channels[j].ph = <<"0">>
\* an analog line of six fields has just been read
C28_SixFieldsReached ==
    /\ ShortAnalogLine /\ Len(LastLine) = 6
    /\ LastAnalogChannel.uu = <<"A">> /\ LastAnalogChannel.a = 2

(***************************************************************************)
(* C24  When the time of a record cannot be resolved                       *)
(***************************************************************************)
\* the resolution of the time of the last row read has raised
TimeRaised ==
    /\ pc = "error"
    /\ err = "Exception: Missing timestamp and no sample rate provided."
\* the rate of the segment that covers row r is 0
RateZero(r) == CoveringRate(RowSample(r)) = 0
\* the raw time stamp of row r is the missing constant
StampMissing(r) == RowStamp(r) = TIMESTAMP_MISSING

\* C24 as claimed: the resolution of a row's time raises exactly when the
\* rate of the segment covering its sample number is 0 and its raw time
\* stamp is 0xFFFFFFFF; a decoded row with rate 0 and another raw stamp
\* has the time made from that stamp.
C24_TimeFailure ==
    /\ TimeRaised => RateZero(Len(datIn)) /\ StampMissing(Len(datIn))
    /\ Decoded =>
          \A r \in RowsDecoded :
              /\ ~(RateZero(r) /\ StampMissing(r))
              /\ (RateZero(r) /\ ~StampMissing(r)) =>
                     ct.time_values[r] = StampTime(RowStamp(r))
\* what holds: it raises exactly when the rate is 0 and the time is to be
\* computed from the sample number, which is when the raw stamp is
\* 0xFFFFFFFF or the rate count line was not 0
C24_RateZeroAndComputed ==
    /\ TimeRaised =>
          /\ RateZero(Len(datIn))
          /\ ~cfg.timestamp_critical \/ StampMissing(Len(datIn))
    /\ Decoded =>
          \A r \in RowsDecoded :
              /\ ~(RateZero(r) /\ (~cfg.timestamp_critical \/ StampMissing(r)))
              /\ (RateZero(r) /\ ~StampMissing(r)) =>
                     ct.time_values[r] = StampTime(RowStamp(r))
\* a row with rate 0 and a raw stamp other than 0xFFFFFFFF has raised
C24_UsableStampRaised ==
    /\ TimeRaised
    /\ RateZero(Len(datIn)) /\ ~StampMissing(Len(datIn))
\* a row with rate 0 and the raw stamp 0xFFFFFFFF has raised
C24_MissingStampRaised ==
    /\ TimeRaised
    /\ RateZero(Len(datIn)) /\ StampMissing(Len(datIn))
\* rows with rate 0 have been decoded from their stamps
C24_StampUsed ==
    /\ Decoded /\ ct.total_samples = 2 /\ Len(datIn) >= 2
    /\ \A r \in RowsDecoded : RateZero(r) /\ ct.time_values[r] = StampTime(RowStamp(r))
    /\ ct.time_values[2] # Zero

(***************************************************************************)
(* C26  The record layout of the binary formats                            *)
(***************************************************************************)
\* a binary reader has gone past the making of its struct format
PastStructFormat == IsBinary(dat) /\ pc \notin {"preallocate", "parse"}
\* the record is read as the sample number, the time stamp, one field per
\* analog channel and one 16 bit group per 16 status channels
LayoutAsCounted ==
    /\ ReaderFormat(dat, cfg).ok
    /\ ReaderFormat(dat, cfg).acount = cfg.analog_count
    /\ ReaderFormat(dat, cfg).dcount = CeilDiv16(cfg.status_count)
    /\ StructSize(dat.class, ReaderFormat(dat, cfg)) =
           4 + 4 + cfg.analog_count * (IF dat.class = "BinaryDatReader" THEN 2 ELSE 4)
           + 2 * CeilDiv16(cfg.status_count)
    /\ \A r \in 1..Len(datIn) :
           Len(datIn[r]) = 2 + cfg.analog_count + CeilDiv16(cfg.status_count)

\* C26 as claimed: in the three binary formats, for every analog count and
\* every status count from 0 on, the struct format is made without error
\* and a record is 4 + 4 bytes, 2 (BINARY) or 4 (BINARY32, FLOAT32) bytes
\* per analog channel and 2 bytes per 16 status channels, rounded up.
C26_RecordLayout == PastStructFormat => (err # "KeyError" /\ LayoutAsCounted)
\* what holds: so it is with one analog channel at least; with none the
\* making of the struct format raises KeyError
C26_LayoutWithAnalog ==
    PastStructFormat =>
        IF cfg.analog_count > 0 THEN err # "KeyError" /\ LayoutAsCounted
        ELSE pc = "error" /\ err = "KeyError"
\* a binary stream of a configuration without analog channels and with a
\* status channel has raised KeyError
C26_StatusOnlyRaised ==
    /\ PastStructFormat /\ cfg.analog_count = 0 /\ cfg.status_count >= 1
    /\ pc = "error" /\ err = "KeyError"
\* binary streams with analog and status channels, and with analog
\* channels only, have been decoded
C26_BothDecoded ==
    /\ Decoded /\ IsBinary(dat) /\ dat.class = "Binary32DatReader"
    /\ cfg.analog_count = 2 /\ cfg.status_count = 2 /\ Len(datIn) >= 2
C26_AnalogOnlyDecoded ==
    /\ Decoded /\ dat.class = "BinaryDatReader"
    /\ cfg.analog_count = 1 /\ cfg.status_count = 0 /\ Len(datIn) >= 1

(***************************************************************************)
(* C30  Times computed from the sample number, in the order of the rows    *)
(***************************************************************************)
\* x <= y and x < y for rationals with positive denominators
RatLeq(x, y) == x[1] * y[2] <= y[1] * x[2]
RatLess(x, y) == x[1] * y[2] < y[1] * x[2]
\* a decode whose rows carry the sample numbers 1, 2, 3, ..., whose times
\* are computed from the sample number, no segment having the rate 0
ConsecutiveComputed ==
    /\ Decoded
    /\ \A k \in 1..Len(cfg.sample_rates) : cfg.sample_rates[k][1] # 0
    /\ \A r \in RowsDecoded :
          /\ RowSample(r) = r
          /\ ~cfg.timestamp_critical \/ RowStamp(r) = TIMESTAMP_MISSING
\* rows r and r + 1 have both been decoded
NextDecoded(r) == r \in RowsDecoded /\ r + 1 \in RowsDecoded

\* C30 as claimed: after such a decode the time of a row is not later than
\* the time of the row after it, also where the two rows lie in different
\* segments.
C30_TimesInOrder ==
    ConsecutiveComputed =>
        \A r \in RowsDecoded :
            NextDecoded(r) => RatLeq(ct.time_values[r], ct.time_values[r + 1])
\* what holds: the time grows from a row to the next within a segment,
\* and across a boundary when the later segment's rate is not higher
C30_InOrderWithinSegment ==
    ConsecutiveComputed =>
        \A r \in RowsDecoded :
            (NextDecoded(r) /\ CoveringRate(r + 1) <= CoveringRate(r)) =>
                RatLess(ct.time_values[r], ct.time_values[r + 1])
\* a time is earlier than the time of the row before it
C30_BackwardsReached ==
    /\ ConsecutiveComputed
    /\ \E r \in RowsDecoded :
          /\ NextDecoded(r)
          /\ RatLess(ct.time_values[r + 1], ct.time_values[r])
          /\ CoveringRate(r) = 1000 /\ CoveringRate(r + 1) = 4000
\* two segments of falling rate have been decoded to their last sample
C30_FallingRateReached ==
    /\ ConsecutiveComputed /\ Len(cfg.sample_rates) = 2
    /\ cfg.sample_rates[1][1] = 4000 /\ cfg.sample_rates[2][1] = 500
    /\ cfg.sample_rates[1][2] = 2
    /\ RowsDecoded = 1..SegmentSamples

(***************************************************************************)
(* C22  A file that does not exist                                         *)
(***************************************************************************)
NotFound == entry = "Comtrade.load" /\ pc = "error" /\ err = "FileNotFoundError"
\* the fields read from a configuration are those given by Cfg.__init__
ConfigurationUntouched == [cfg EXCEPT !.filepath = <<>>] = CfgInit(FALSE)
\* no array holds a decoded value or a preallocated place
ArraysUntouched ==
    /\ ct.time_values = <<>> /\ ct.analog_values = <<>> /\ ct.status_values = <<>>
    /\ ct.total_samples = ComtradeInit.total_samples
    /\ dat.time = <<>> /\ dat.analog = <<>> /\ dat.status = <<>>

\* C22 as claimed: when load ends with the not-found error, for the CFG file
\* or for the DAT file beside it, the object's configuration and its decoded
\* arrays are those it had before the call.
C22_NotFoundBeforeParsing ==
    NotFound => (ConfigurationUntouched /\ ArraysUntouched)
\* what holds: the error leaves the arrays as they were; the configuration
\* is as it was when it is the CFG file that does not exist, and has been
\* read to its end when it is the DAT file
C22_NotFoundBeforeDecoding ==
    NotFound =>
        /\ ArraysUntouched
        /\ IF cfgIn = <<>>
           THEN ConfigurationUntouched /\ ct = ComtradeInit /\ dat = NoReader
           ELSE /\ pc # "line1" /\ cfg.sample_rates # <<>>
                /\ dat.file_path = PathBase(cfg.filepath) \o EXT_DAT
\* the CFG file does not exist
C22_CfgNotFoundReached == NotFound /\ cfgIn = <<>> /\ cfg.filepath # <<>>
\* the DAT file does not exist: the configuration has been read
C22_DatNotFoundReached ==
    /\ NotFound /\ cfgIn # <<>>
    /\ cfg.station_name # <<>> /\ cfg.analog_count = 1
    /\ ct.analog_channel_ids # <<>>

(***************************************************************************)
(* C25  The order of the sections of a combined file                       *)
(***************************************************************************)
\* the place of the header of a section in the combined file, and the
\* lines written under it up to the next header or the end of the file
HeaderPlace(ftype) ==
    CHOOSE i \in 1..Len(cff.file) : CffHeader(cff.file[i]).ftype = Str(ftype)
SectionEnd(ftype) ==
    LET later == {i \in (HeaderPlace(ftype) + 1)..Len(cff.file) :
                     CffHeader(cff.file[i]).match}
    IN  IF later = {} THEN Len(cff.file)
        ELSE (CHOOSE i \in later : \A j \in later : i <= j) - 1
SectionLines(ftype) ==
    [k \in 1..(SectionEnd(ftype) - HeaderPlace(ftype)) |->
        StripLine(cff.file[HeaderPlace(ftype) + k])]
\* the loop of _load_cff has read the last line of the file
ScanOver == pc = "cff_scan" /\ cff.line_number = Len(cff.file)
\* another header follows the DAT section
DatFollowed == SectionEnd(FTYPE_DAT) < Len(cff.file)

\* C25 as claimed: whatever the order of the sections, when the file has
\* been read each buffer holds the lines of its section in their order,
\* and when the load is done the rows of the ASCII DAT section have been
\* decoded: the configuration and the arrays are those of the pair, also
\* when the INF and HDR sections follow the DAT section.
C25_SectionOrder ==
    /\ ScanOver =>
          /\ cff.cfg_lines = SectionLines(FTYPE_CFG)
          /\ cff.dat_lines = SectionLines(FTYPE_DAT)
          /\ cff.inf_lines = SectionLines(FTYPE_INF)
          /\ cff.hdr_lines = SectionLines(FTYPE_HDR)
    /\ (CffReading /\ pc = "done") =>
          /\ cfg = pair.cfg
          /\ ct.time_values = pair.ct.time_values
          /\ ct.analog_values = pair.ct.analog_values
          /\ ct.status_values = pair.ct.status_values
\* what holds in every order: the buffers hold the lines of their sections
\* and the configuration is that of the pair; the rows are handed to the
\* decoder only when no header follows the DAT section
C25_BuffersInOrder ==
    /\ ScanOver =>
          /\ cff.cfg_lines = SectionLines(FTYPE_CFG)
          /\ cff.dat_lines = SectionLines(FTYPE_DAT)
          /\ cff.inf_lines = SectionLines(FTYPE_INF)
          /\ cff.hdr_lines = SectionLines(FTYPE_HDR)
          /\ (cff.fformat = Str(TYPE_ASCII)) = ~DatFollowed
    /\ CffReading =>
          /\ cff.dat_lines = IF DatFollowed THEN <<>> ELSE SectionLines(FTYPE_DAT)
          /\ pc = "done" => cfg = pair.cfg /\ dat.class = "AsciiDatReader"
\* the rows of a DAT section followed by the INF and HDR sections are in
\* the buffer when the file has been read
C25_RowsBufferedReached ==
    /\ ScanOver /\ DatFollowed
    /\ Len(cff.dat_lines) = 2 /\ cff.dat_lines = SectionLines(FTYPE_DAT)
    /\ cff.fformat = None
\* and none of them has been decoded when the load is done
C25_RowsDroppedReached ==
    /\ CffReading /\ pc = "done" /\ DatFollowed
    /\ Len(SectionLines(FTYPE_DAT)) = 2 /\ datIn = <<>>
    /\ ct.analog_values # pair.ct.analog_values

(***************************************************************************)
(* C29  A stream read by a Cfg object that has read another one before     *)
(***************************************************************************)
\* the second stream has been read by the first object, with the result
\* earlier.cfg, and then by an object just made, with the result cfg
BothRead == earlier.phase = "fresh" /\ pc = "done"
\* the 2013 codes of a configuration
Codes(c) == <<c.time_code, c.local_code, c.tmq_code, c.leap_second>>
\* the second stream has a frequency, a multiplier line, the lines of codes
StreamHasFrequency == earlier.lines[FrequencyIndex] # BlankLine
StreamHasMultiplier == cfg.rev_year # REV_1991
StreamHasCodes == cfg.rev_year = REV_2013 /\ Len(earlier.lines) = FtIndex + 3

\* C29 as claimed: a stream read by an object that has read another
\* stream before leaves the frequency, the time multiplier, the flag
\* timestamp_critical, the time base, the 2013 codes, the channel lists
\* and the rate segments that it leaves in an object just made.
C29_ReadsIndependent ==
    BothRead =>
        /\ earlier.cfg.frequency = cfg.frequency
        /\ earlier.cfg.time_multiplier = cfg.time_multiplier
        /\ earlier.cfg.timestamp_critical = cfg.timestamp_critical
        /\ earlier.cfg.time_base = cfg.time_base
        /\ Codes(earlier.cfg) = Codes(cfg)
        /\ earlier.cfg.analog_channels = cfg.analog_channels
        /\ earlier.cfg.status_channels = cfg.status_channels
        /\ earlier.cfg.sample_rates = cfg.sample_rates
\* what holds: the fields that every read assigns are those of an object
\* just made; the frequency, the multiplier and the codes are, when the
\* second stream has the line that gives them
C29_AssignedFieldsIndependent ==
    BothRead =>
        /\ [earlier.cfg EXCEPT !.frequency = 0, !.time_multiplier = 1,
               !.time_code = INIT_CODE, !.local_code = INIT_CODE,
               !.tmq_code = INIT_CODE, !.leap_second = INIT_CODE]
           = [cfg EXCEPT !.frequency = 0, !.time_multiplier = 1,
               !.time_code = INIT_CODE, !.local_code = INIT_CODE,
               !.tmq_code = INIT_CODE, !.leap_second = INIT_CODE]
        /\ StreamHasFrequency => earlier.cfg.frequency = cfg.frequency
        /\ StreamHasMultiplier => earlier.cfg.time_multiplier = cfg.time_multiplier
        /\ StreamHasCodes => Codes(earlier.cfg) = Codes(cfg)
\* the frequency of the first stream is left by a second stream whose
\* frequency line is blank
C29_FrequencyKeptReached ==
    /\ BothRead /\ ~StreamHasFrequency
    /\ earlier.cfg.frequency = 60 /\ cfg.frequency = 0
\* the multiplier of the first stream is left by a second stream of
\* revision 1991
C29_MultiplierKeptReached ==
    /\ BothRead /\ ~StreamHasMultiplier
    /\ earlier.cfg.time_multiplier = 2 /\ cfg.time_multiplier = 1
\* the codes of the first stream are left by a second stream of revision
\* 1999
C29_CodesKeptReached ==
    /\ BothRead /\ cfg.rev_year = REV_1999
    /\ Codes(earlier.cfg) = <<LINE_TIMECODE[1], LINE_TIMECODE[2], LINE_TMQ[1], LINE_TMQ[2]>>
    /\ Codes(cfg) = <<INIT_CODE, INIT_CODE, INIT_CODE, INIT_CODE>>
\* a second stream that gives every field leaves what it leaves in an
\* object just made, after a first stream of other values
C29_SameReached ==
    /\ BothRead /\ StreamHasFrequency /\ StreamHasMultiplier /\ StreamHasCodes
    /\ earlier.cfg = cfg
    /\ cfg.timestamp_critical /\ cfg.time_base = TIME_BASE_NANOSEC

(***************************************************************************)
(* C21  The bytes of a binary DAT section of a combined file               *)
(***************************************************************************)
\* a combined file with a binary DAT section has been given to load
BinaryFileGiven == cff.bytes # <<>>
\* the count of bytes that its DAT header declares, as the header line
\* has it, and the last bytes of the file
HeaderCount ==
    CffHeader(cff.file[CHOOSE i \in 1..Len(cff.file) :
                           CffHeader(cff.file[i]).ftype = Str(FTYPE_DAT)]).fbytes
LastBytes(n) == SubSeq(cff.bytes, Len(cff.bytes) - n + 1, Len(cff.bytes))
\* the load has ended before any bytes were handed to the decoder
EndedBeforeDecoder == pc = "error" /\ ~cff.reading
\* the text sections INF and HDR lie between the CFG and the DAT section
TextSectionsBefore ==
    \E i \in 1..Len(cff.file) : CffHeader(cff.file[i]).ftype = Str(FTYPE_HDR)

\* C21 as claimed: for a combined file whose binary DAT header declares N
\* bytes, N not more than the file holds, the load hands to the decoder
\* the last N bytes of the file, whatever text sections come before the
\* DAT section.
C21_LastBytesHanded ==
    (BinaryFileGiven /\ HeaderCount <= Len(cff.bytes)) =>
        /\ ~EndedBeforeDecoder
        /\ cff.reading => cff.dat_bytes = LastBytes(HeaderCount)
\* what holds: the last N bytes are handed over when the text pass can
\* read the file, which it can when the data happen to be well-formed
\* UTF-8 or the encoding of the locale has a character for every byte;
\* otherwise the load ends with UnicodeDecodeError before the decoder
C21_LastBytesWhenReadable ==
    (BinaryFileGiven /\ HeaderCount <= Len(cff.bytes)) =>
        /\ EndedBeforeDecoder =>
              /\ err = "UnicodeDecodeError"
              /\ cff.encoding = "utf-8" /\ ~Utf8Valid(cff.bytes)
        /\ (pc # "load" /\ Decodable(cff.encoding, cff.bytes)) => ~EndedBeforeDecoder
        /\ cff.reading => cff.dat_bytes = LastBytes(HeaderCount)
\* a file whose data are not well-formed UTF-8 is refused
C21_RefusedReached ==
    /\ BinaryFileGiven /\ EndedBeforeDecoder /\ err = "UnicodeDecodeError"
    /\ HeaderCount = 2 * RecordBytes /\ ~TextSectionsBefore
\* with text sections before the DAT section the two records declared are
\* handed over and decoded
C21_HandedReached ==
    /\ BinaryFileGiven /\ pc = "done" /\ TextSectionsBefore
    /\ HeaderCount = 2 * RecordBytes /\ Len(cff.dat_bytes) = 2 * RecordBytes
    /\ cff.dat_bytes = LastBytes(2 * RecordBytes)
    /\ cff.encoding = "latin-1" /\ ~Utf8Valid(cff.bytes)
    /\ ct.analog_values[1][1] # 0 /\ ct.time_values[2] # Zero
\* data with bytes above 127 that are well-formed UTF-8 are handed over
\* under the utf-8 locale
C21_WellFormedReached ==
    /\ BinaryFileGiven /\ pc = "done" /\ cff.encoding = "utf-8"
    /\ \E i \in 1..Len(cff.dat_bytes) : cff.dat_bytes[i] > 127
\* a header that declares more bytes than the file holds: the load raises
\* ValueError, or hands over no byte when it declares one byte more
C21_TooManyRaisedReached ==
    /\ BinaryFileGiven /\ HeaderCount > Len(cff.bytes) + 1
    /\ pc = "error" /\ err = "ValueError"
C21_OneMoreReached ==
    /\ BinaryFileGiven /\ HeaderCount = Len(cff.bytes) + 1
    /\ pc = "done" /\ cff.dat_bytes = <<>>
    /\ \A i \in 1..Len(ct.time_values) : ct.time_values[i] = Zero

====
